---- MODULE Spec2Model ----
(***************************************************************************)
(* Rule scheduling and application state machine of stockmaster.           *)
(*                                                                         *)
(* The tree holds two copies of the rule tasks that work on the same       *)
(* tables (apps.rules.models.RuleApplication, apps.inventory.models.       *)
(* Product and InventoryLog):                                              *)
(*   - apps/inventory/tasks.py            (definitions without prefix)     *)
(*   - apps/inventory/tasks/rule_tasks.py (definitions prefixed rule_tasks)*)
(* The first copy works without a transaction: every ORM statement is its  *)
(* own commit.  A task of it is three steps of a worker: the load with the *)
(* guards, the remote call with the product and log writes, and the status *)
(* write.  The second copy wraps each task in transaction.atomic() and is  *)
(* one step per task.                                                      *)
(***************************************************************************)
EXTENDS Integers, Sequences, FiniteSets, Bags, TLC

(* ------------------------------ bounds --------------------------------- *)
MaxApps == 1
MaxTime == 1
MaxCrashes == 1
MaxTriggers == 1
MaxExecutions == 4

Workers == {1, 2}
Callers == {1, 2}
RuleIds == {1, 2}
Products == {1}

\* the ids a row can get: each caller in flight inserts one row
RowIds == 1..(MaxApps + Cardinality(Callers) - 1)

NoTime == -1

(* ------------------------------ schema --------------------------------- *)
\* apps.rules.models.RuleApplication.STATUS_CHOICES
STATUS_CHOICES == {"pending", "applied", "reversed", "failed"}

\* concrete fields of apps.rules.models.Rule that the tasks may name
RuleFields ==
    {"store", "name", "description", "trigger_type", "threshold", "action_type",
     "delay_minutes", "auto_restore", "restore_after_days", "product_type_filter",
     "vendor_filter", "tag_filter", "collection_filter", "is_active", "priority",
     "created_at", "updated_at"}

\* concrete fields of apps.rules.models.RuleApplication
RuleApplicationFields ==
    {"rule", "product", "status", "triggered_at", "scheduled_for", "applied_at",
     "restore_scheduled_for", "notes"}

\* the Rule rows of the store; they are read-only to the tasks
RuleTable ==
    << [action_type |-> "hide_product", delay_minutes |-> 0, auto_restore |-> TRUE,  restore_after_days |-> 1],
       [action_type |-> "tag_product",  delay_minutes |-> 1, auto_restore |-> FALSE, restore_after_days |-> 0] >>

VARIABLES
    rules,      \* the Rule table: [RuleIds -> row]
    apps,       \* the RuleApplication table: sequence of rows, row id = index
    product,    \* the Product table: [Products -> row]
    logs,       \* the InventoryLog table: a bag of rows (rows are only ever added)
    queue,      \* work items held by the broker: set of [task, id]
    notifs,     \* send_rule_applied_notification work items enqueued: a bag
    now,        \* timezone.now()
    pc,         \* [Workers -> position of the worker inside a task of tasks.py]
    local,      \* [Workers -> the task's local variables]
    cpc,        \* [Callers -> position inside schedule_rule_application of tasks.py]
    clocal,     \* [Callers -> the call's arguments]
    last,       \* the call that ended in the last step and how it ended
    failed_runs, \* the work items [task, id] an execution of which returned an error
    crashes,    \* worker crashes so far
    store,      \* the ShopifyStore row: [access_token, sync_status, last_sync_at]
    catalog,    \* Product, ProductVariant, InventoryLocation, InventoryLevel rows written by the sync
    syncq,      \* sync_store_data work items held by the broker: a bag of [store, retries]
    sync,       \* the running execution of sync_store_data: its position and local variables
    session,    \* shopify.ShopifyResource has an activated session
    executions, \* executions of sync_store_data started so far
    arg,        \* the argument of a function under evaluation
    result      \* its result

ruleVars == <<rules, apps, product, logs, queue, notifs, pc, local, cpc, clocal, crashes, failed_runs>>
syncVars == <<store, catalog, syncq, sync, session, executions>>
fnVars == <<arg, result>>
vars == <<ruleVars, last, now, syncVars, fnVars>>

(* ------------------------------ rows ----------------------------------- *)
\* RuleApplication(rule=, product=, status='pending', ...): the model's defaults
NewApplication(r, p, trig, sched, restore) ==
    [rule |-> r, product |-> p, status |-> "pending", triggered_at |-> trig,
     scheduled_for |-> sched, applied_at |-> NoTime,
     restore_scheduled_for |-> restore, notes |-> ""]

NewProduct ==
    [status |-> "active", is_visible |-> TRUE, hidden_at |-> NoTime, scheduled_return |-> NoTime]

NoLocal == [id |-> 0, task |-> "none"]

\* a call has ended: a task with the 'status' of the dict it returned, a
\* plain call with the exception it raised
Ended(op, status) == [op |-> op, status |-> status]
NoResult == Ended("none", "none")
NoCall == [rule |-> 0, product |-> 0]

AppIds == 1..Len(apps)

\* ShopifyStore defaults: sync_status 'pending', last_sync_at NULL; the store holds a token
NewStore == [access_token |-> TRUE, sync_status |-> "pending", last_sync_at |-> NoTime]

NoCatalog == [products |-> {}, variants |-> {}, locations |-> {}, levels |-> {}]
NoSync == [pc |-> "idle"]

\* no sync has been triggered
SyncInit ==
    /\ store = NewStore
    /\ catalog = NoCatalog
    /\ syncq = EmptyBag
    /\ sync = NoSync
    /\ session = FALSE
    /\ executions = [triggers |-> 0, started |-> 0]

\* no function is under evaluation
FnInit ==
    /\ arg = <<>>
    /\ result = "none"

\* RuleApplication.objects.filter(rule=, product=, status='pending')
PendingFor(r, p) ==
    {a \in AppIds : apps[a].rule = r /\ apps[a].product = p /\ apps[a].status = "pending"}


\* the rule tables, the queue and the workers before any operation
RuleInit ==
    /\ rules = RuleTable
    /\ apps = <<>>
    /\ product = [p \in Products |-> NewProduct]
    /\ logs = EmptyBag
    /\ queue = {}
    /\ notifs = EmptyBag
    /\ now = 0
    /\ pc = [w \in Workers |-> "idle"]
    /\ local = [w \in Workers |-> NoLocal]
    /\ cpc = [c \in Callers |-> "idle"]
    /\ clocal = [c \in Callers |-> NoCall]
    /\ last = NoResult
    /\ crashes = 0
    /\ failed_runs = {}

\* the database, the queues and the workers before any operation
StateInit == RuleInit /\ SyncInit

Init == StateInit /\ FnInit

\* the clock of timezone.now()
Tick ==
    /\ now < MaxTime
    /\ now' = now + 1
    /\ UNCHANGED <<rules, apps, product, logs, queue, notifs, pc, local, cpc, clocal, crashes>>
    /\ UNCHANGED <<syncVars, fnVars, failed_runs>>
    /\ last' = NoResult

(* ---------------- apps/inventory/tasks.py: scheduler ------------------- *)
\* scheduled_for and restore_scheduled_for as schedule_rule_application computes them
ScheduledFor(r) ==
    IF rules[r].delay_minutes > 0 THEN now + rules[r].delay_minutes ELSE now

RestoreScheduledFor(r) ==
    IF rules[r].auto_restore /\ rules[r].restore_after_days > 0
    THEN ScheduledFor(r) + rules[r].restore_after_days
    ELSE NoTime

\* apply_rule.delay(rule_app.id) when the rule has no delay
EnqueueIfNoDelay(r, a) ==
    IF rules[r].delay_minutes = 0 THEN queue \cup {[task |-> "apply", id |-> a]} ELSE queue

\* update_or_create(rule=, product=, status='pending', defaults=...): the
\* lookup.  One pending row: it is locked and updated in the same statement.
\* No row: the insert follows as a second statement.  Several rows: get()
\* raises MultipleObjectsReturned.  A call goes on to the insert only while the
\* table holds fewer than MaxApps rows; a call that has gone on does insert.
schedule_rule_application(c, r, p) ==
    /\ cpc[c] = "idle"
    /\ LET found == PendingFor(r, p) IN
       CASE Cardinality(found) = 1 ->
              LET a == CHOOSE x \in found : TRUE IN
              /\ apps' = [apps EXCEPT ![a].triggered_at = now,
                                      ![a].scheduled_for = ScheduledFor(r),
                                      ![a].restore_scheduled_for = RestoreScheduledFor(r)]
              /\ queue' = EnqueueIfNoDelay(r, a)
              /\ UNCHANGED <<cpc, clocal>>
              /\ last' = NoResult
         [] Cardinality(found) = 0 ->
              /\ Len(apps) < MaxApps
              /\ cpc' = [cpc EXCEPT ![c] = "create"]
              /\ clocal' = [clocal EXCEPT ![c] = [rule |-> r, product |-> p]]
              /\ UNCHANGED <<apps, queue>>
              /\ last' = NoResult
         [] OTHER ->
              /\ last' = Ended("schedule_rule_application", "MultipleObjectsReturned")
              /\ UNCHANGED <<apps, queue, cpc, clocal>>
    /\ UNCHANGED <<rules, product, logs, notifs, now, pc, local, crashes>>
    /\ UNCHANGED <<syncVars, fnVars, failed_runs>>

\* update_or_create: the insert after a lookup that found nothing, then the
\* immediate dispatch
schedule_rule_application_create(c) ==
    /\ cpc[c] = "create"
    /\ LET r == clocal[c].rule
           p == clocal[c].product
           a == Len(apps) + 1 IN
       /\ apps' = Append(apps, NewApplication(r, p, now, ScheduledFor(r), RestoreScheduledFor(r)))
       /\ queue' = EnqueueIfNoDelay(r, a)
       /\ last' = NoResult
    /\ cpc' = [cpc EXCEPT ![c] = "idle"]
    /\ clocal' = [clocal EXCEPT ![c] = NoCall]
    /\ UNCHANGED <<rules, product, logs, notifs, now, pc, local, crashes>>
    /\ UNCHANGED <<syncVars, fnVars, failed_runs>>

(* ---------------- apps/inventory/tasks.py: apply_rule ------------------- *)
Msg(task, a) == [task |-> task, id |-> a]

\* the executions that returned {'status': 'error', ...}, with the one that
\* ends in this step as ended
Recorded(m, ended) == IF ended.status = "error" THEN failed_runs \cup {m} ELSE failed_runs

\* the task returns
Finish(w, op, status) ==
    /\ pc' = [pc EXCEPT ![w] = "idle"]
    /\ local' = [local EXCEPT ![w] = NoLocal]
    /\ last' = Ended(op, status)

\* the guard of apply_rule with "applied" as the only status it stops at
ApplySkipsAppliedOnly(status) == status = "applied"

\* if rule_app.status != 'pending': return skipped
ApplySkips(status) == status # "pending"

\* a worker receives apply_rule(id) from the broker.
\* RuleApplication.objects.select_related('rule', 'product').get(id=...),
\* then the status guard and the scheduled_for guard.
apply_rule(w, a) ==
    /\ pc[w] = "idle"
    /\ Msg("apply", a) \in queue
    /\ a \in AppIds
    /\ IF ApplySkips(apps[a].status)
       THEN /\ queue' = queue \ {Msg("apply", a)}
            /\ last' = Ended("apply_rule", "skipped")
            /\ UNCHANGED <<pc, local>>
       ELSE IF apps[a].scheduled_for # NoTime /\ apps[a].scheduled_for > now
       THEN /\ queue' = queue \ {Msg("apply", a)}
            /\ last' = Ended("apply_rule", "deferred")
            /\ UNCHANGED <<pc, local>>
       ELSE /\ pc' = [pc EXCEPT ![w] = "act"]
            /\ local' = [local EXCEPT ![w] =
                    [id |-> a, task |-> "apply", app |-> apps[a],
                     prod |-> product[apps[a].product]]]
            /\ queue' = queue \ {Msg("apply", a)}
            /\ last' = NoResult
    /\ UNCHANGED <<rules, apps, product, logs, notifs, now, cpc, clocal, crashes>>
    /\ UNCHANGED <<syncVars, fnVars, failed_runs>>

\* rule_app.status = 'failed'; rule_app.notes = ...; rule_app.save()
\* save() writes every column of the instance the task loaded
SaveFailed(w, note) ==
    [apps EXCEPT ![local[w].id] = [local[w].app EXCEPT !.status = "failed", !.notes = note]]

LogRow(w, action, new_status) ==
    [product |-> local[w].app.product, action |-> action,
     previous_status |-> local[w].prod.status, new_status |-> new_status,
     app |-> local[w].id]

\* hide_product: client.update_product answers (ok) or _request returned None.
\* On an answer the loaded product is written back as draft/hidden by
\* product.save() and the InventoryLog row (action='hide') is created; the
\* app column of the row is not in the table, it records the RuleApplication
\* the row was written for.  Without an answer, and for any other action
\* type, the RuleApplication is saved as failed.
apply_rule_act(w, ok) ==
    /\ pc[w] = "act"
    /\ local[w].task = "apply"
    /\ LET a == local[w].id
           p == local[w].app.product
           rule == rules[local[w].app.rule] IN
       IF rule.action_type = "hide_product"
       THEN IF ok
            THEN /\ product' = [product EXCEPT ![p] =
                        [local[w].prod EXCEPT !.status = "draft", !.is_visible = FALSE,
                                              !.hidden_at = now]]
                 /\ logs' = logs (+) SetToBag({LogRow(w, "hide", "draft")})
                 /\ pc' = [pc EXCEPT ![w] = "save"]
                 /\ UNCHANGED <<apps, local>>
                 /\ last' = NoResult
            ELSE /\ apps' = SaveFailed(w, "Failed to update product in Shopify")
                 /\ Finish(w, "apply_rule", "error")
                 /\ UNCHANGED <<product, logs>>
       ELSE /\ ok
            /\ apps' = SaveFailed(w, "Unsupported action type")
            /\ Finish(w, "apply_rule", "error")
            /\ UNCHANGED <<product, logs>>
    /\ UNCHANGED <<rules, queue, notifs, now, cpc, clocal, crashes>>
    /\ UNCHANGED <<syncVars, fnVars>>
    /\ failed_runs' = Recorded(Msg("apply", local[w].id), last')

\* a statement of the body raises before the first write (rule.store, the
\* client outside RequestException, product.save()): except Exception logs
\* and returns {'status': 'error', 'message': str(e)}
apply_rule_raises(w) ==
    /\ pc[w] = "act"
    /\ local[w].task = "apply"
    /\ failed_runs' = failed_runs \cup {Msg("apply", local[w].id)}
    /\ Finish(w, "apply_rule", "error")
    /\ UNCHANGED <<rules, apps, product, logs, queue, notifs, now, cpc, clocal, crashes>>
    /\ UNCHANGED <<syncVars, fnVars>>

\* rule_app.status = 'applied'; rule_app.applied_at = timezone.now(); rule_app.save()
\* send_rule_applied_notification.delay(store.id, rule.id, product.id); return success
apply_rule_save(w) ==
    /\ pc[w] = "save"
    /\ local[w].task = "apply"
    /\ apps' = [apps EXCEPT ![local[w].id] =
                   [local[w].app EXCEPT !.status = "applied", !.applied_at = now]]
    /\ notifs' = notifs (+) SetToBag({[rule |-> local[w].app.rule,
                                        product |-> local[w].app.product, app |-> local[w].id]})
    /\ Finish(w, "apply_rule", "success")
    /\ UNCHANGED <<rules, product, logs, queue, now, cpc, clocal, crashes>>
    /\ UNCHANGED <<syncVars, fnVars, failed_runs>>

\* rule_app.save() has marked the row applied and
\* send_rule_applied_notification.delay(...) raises (the broker is not
\* reachable): except Exception logs and returns an error; what was saved
\* stays, tasks.py opens no transaction
apply_rule_enqueue_raises(w) ==
    /\ pc[w] = "save"
    /\ local[w].task = "apply"
    /\ apps' = [apps EXCEPT ![local[w].id] =
                   [local[w].app EXCEPT !.status = "applied", !.applied_at = now]]
    /\ failed_runs' = failed_runs \cup {Msg("apply", local[w].id)}
    /\ Finish(w, "apply_rule", "error")
    /\ UNCHANGED <<rules, product, logs, queue, notifs, now, cpc, clocal, crashes>>
    /\ UNCHANGED <<syncVars, fnVars>>

\* notifications/tasks.py send_rule_applied_notification(store_id, rule_id,
\* product_id): an enqueued notification is worked off; it reads store, rule
\* and product and writes Notification rows only; sent is FALSE when it
\* ends in one of its handlers
send_rule_applied_notification(sent) ==
    /\ notifs # EmptyBag
    /\ last' = Ended("send_rule_applied_notification", IF sent THEN "success" ELSE "error")
    /\ UNCHANGED <<rules, apps, product, logs, queue, notifs, now, pc, local, cpc, clocal, crashes>>
    /\ UNCHANGED <<syncVars, fnVars, failed_runs>>

(* ---------------- apps/inventory/tasks.py: restore_product -------------- *)
\* the guards of restore_product with "pending" as the only status they stop at
RestoreSkipsPendingOnly(status) == status = "pending"

\* if rule_app.status == 'reversed': return skipped
\* if rule_app.status != 'applied': return skipped
RestoreSkips(status) == status = "reversed" \/ status # "applied"

\* a worker receives restore_product(id): load the row, then the two status guards
restore_product(w, a) ==
    /\ pc[w] = "idle"
    /\ Msg("restore", a) \in queue
    /\ a \in AppIds
    /\ IF RestoreSkips(apps[a].status)
       THEN /\ queue' = queue \ {Msg("restore", a)}
            /\ last' = Ended("restore_product", "skipped")
            /\ UNCHANGED <<pc, local>>
       ELSE /\ pc' = [pc EXCEPT ![w] = "act"]
            /\ local' = [local EXCEPT ![w] =
                    [id |-> a, task |-> "restore", app |-> apps[a],
                     prod |-> product[apps[a].product]]]
            /\ queue' = queue \ {Msg("restore", a)}
            /\ last' = NoResult
    /\ UNCHANGED <<rules, apps, product, logs, notifs, now, cpc, clocal, crashes>>
    /\ UNCHANGED <<syncVars, fnVars, failed_runs>>

\* hide_product: client.update_product answers, product.save() writes the
\* loaded product back as active/visible and the InventoryLog row
\* (action='show') is created; no answer, or another action type: an error is
\* returned and nothing is written
restore_product_act(w, ok) ==
    /\ pc[w] = "act"
    /\ local[w].task = "restore"
    /\ LET a == local[w].id
           p == local[w].app.product
           rule == rules[local[w].app.rule] IN
       IF rule.action_type = "hide_product" /\ ok
       THEN /\ product' = [product EXCEPT ![p] =
                   [local[w].prod EXCEPT !.status = "active", !.is_visible = TRUE]]
            /\ logs' = logs (+) SetToBag({LogRow(w, "show", "active")})
            /\ pc' = [pc EXCEPT ![w] = "save"]
            /\ UNCHANGED <<local>>
            /\ last' = NoResult
       ELSE /\ Finish(w, "restore_product", "error")
            /\ UNCHANGED <<product, logs>>
    /\ UNCHANGED <<rules, apps, queue, notifs, now, cpc, clocal, crashes>>
    /\ UNCHANGED <<syncVars, fnVars>>
    /\ failed_runs' = Recorded(Msg("restore", local[w].id), last')

\* restore_product_save with the status word of rule_tasks.py
restore_product_save_restored(w) ==
    /\ pc[w] = "save"
    /\ local[w].task = "restore"
    /\ apps' = [apps EXCEPT ![local[w].id] = [local[w].app EXCEPT !.status = "restored"]]
    /\ Finish(w, "restore_product", "success")
    /\ UNCHANGED <<rules, product, logs, queue, notifs, now, cpc, clocal, crashes>>
    /\ UNCHANGED <<syncVars, fnVars, failed_runs>>

\* rule_app.status = 'reversed'; rule_app.save(); return success
restore_product_save(w) ==
    /\ pc[w] = "save"
    /\ local[w].task = "restore"
    /\ apps' = [apps EXCEPT ![local[w].id] = [local[w].app EXCEPT !.status = "reversed"]]
    /\ Finish(w, "restore_product", "success")
    /\ UNCHANGED <<rules, product, logs, queue, notifs, now, cpc, clocal, crashes>>
    /\ UNCHANGED <<syncVars, fnVars, failed_runs>>

(* ---------------- apps/inventory/tasks.py: poller ----------------------- *)
\* filter(status='pending', scheduled_for__lte=now): a NULL scheduled_for never matches
DueToApply ==
    {a \in AppIds : apps[a].status = "pending" /\ apps[a].scheduled_for # NoTime
                    /\ apps[a].scheduled_for <= now}

\* filter(status='applied', restore_scheduled_for__lte=now)
DueToRestore ==
    {a \in AppIds : apps[a].status = "applied" /\ apps[a].restore_scheduled_for # NoTime
                    /\ apps[a].restore_scheduled_for <= now}

check_scheduled_rules ==
    /\ queue' = queue \cup {Msg("apply", a) : a \in DueToApply}
                      \cup {Msg("restore", a) : a \in DueToRestore}
    /\ UNCHANGED <<rules, apps, product, logs, notifs, now, pc, local, cpc, clocal, crashes>>
    /\ UNCHANGED <<syncVars, fnVars, failed_runs>>
    /\ last' = NoResult

(* ---------------- worker failure ---------------------------------------- *)
\* a worker dies inside a task: its local variables are gone and what it has
\* committed stays; the broker delivers the work item again when it was not
\* acknowledged yet, otherwise the work item is lost
Crash(w, redeliver) ==
    /\ pc[w] # "idle"
    /\ crashes < MaxCrashes
    /\ crashes' = crashes + 1
    /\ pc' = [pc EXCEPT ![w] = "idle"]
    /\ local' = [local EXCEPT ![w] = NoLocal]
    /\ queue' = IF redeliver THEN queue \cup {Msg(local[w].task, local[w].id)} ELSE queue
    /\ UNCHANGED <<rules, apps, product, logs, notifs, now, cpc, clocal>>
    /\ UNCHANGED <<syncVars, fnVars, failed_runs>>
    /\ last' = NoResult

(* ---------------- apps/inventory/tasks/rule_tasks.py -------------------- *)
\* Model.__init__ and QuerySet.filter accept only the model's fields:
\* a keyword that names no field raises TypeError, a lookup FieldError,
\* save(update_fields=[...]) ValueError; reading an attribute the model does
\* not define raises AttributeError
Defines(fields, name) == name \in fields

\* schedule_rule_application: the existence check, then
\* RuleApplication.objects.create(..., scheduled_at=apply_at) and the
\* immediate dispatch.  RuleApplication has no field scheduled_at, so
\* create() raises before a row is written and before apply_rule.delay.
rule_tasks_schedule_rule_application(r, p) ==
    /\ IF PendingFor(r, p) # {}
       THEN /\ UNCHANGED <<apps, queue>>
            /\ last' = NoResult
       ELSE IF Defines(RuleApplicationFields, "scheduled_at")
       THEN /\ Len(apps) < MaxApps
            /\ apps' = Append(apps, NewApplication(r, p, now, NoTime, NoTime))
            /\ queue' = IF rules[r].delay_minutes <= 0
                        THEN queue \cup {Msg("apply", Len(apps) + 1)} ELSE queue
            /\ last' = NoResult
       ELSE /\ last' = Ended("schedule_rule_application", "TypeError")
            /\ UNCHANGED <<apps, queue>>
    /\ UNCHANGED <<rules, product, logs, notifs, now, pc, local, cpc, clocal, crashes>>
    /\ UNCHANGED <<syncVars, fnVars, failed_runs>>

\* what the body of apply_rule writes inside transaction.atomic()
rule_tasks_hidden(a) ==
    [product EXCEPT ![apps[a].product].is_visible = FALSE,
                    ![apps[a].product].hidden_at = now]

rule_tasks_applied(a) ==
    [apps EXCEPT ![a].status = "applied", ![a].applied_at = now]

\* previous_status is computed after product.is_visible was set to False
rule_tasks_log(a, prod) ==
    [product |-> apps[a].product, action |-> "rule",
     previous_status |-> IF prod[apps[a].product].is_visible THEN "visible" ELSE "hidden",
     new_status |-> "hidden", app |-> a]

\* the exception the body of apply_rule raises for a pending row, "none" if none:
\* schedule_return reads rule.return_days, every branch reads rule.send_notification
rule_tasks_apply_raises(a) ==
    IF rules[apps[a].rule].action_type = "schedule_return"
       /\ ~Defines(RuleFields, "return_days")
    THEN "AttributeError"
    ELSE IF ~Defines(RuleFields, "send_notification") THEN "AttributeError"
    ELSE "none"

\* apply_rule(rule_application_id): one transaction.  A row that is not
\* pending is skipped.  Otherwise the product is hidden (hide_product), the
\* row marked applied and the log row written; an exception leaves the
\* atomic block, which rolls all of it back, and the handler returns an
\* error dict.
rule_tasks_apply_rule(a) ==
    /\ a \in AppIds
    /\ IF apps[a].status # "pending"
       THEN /\ last' = Ended("apply_rule", "skipped")
            /\ UNCHANGED <<apps, product, logs>>
       ELSE LET prod == IF rules[apps[a].rule].action_type = "hide_product"
                        THEN rule_tasks_hidden(a) ELSE product IN
            IF rule_tasks_apply_raises(a) # "none"
            THEN /\ last' = Ended("apply_rule", "error")
                 /\ UNCHANGED <<apps, product, logs>>
            ELSE /\ product' = prod
                 /\ apps' = rule_tasks_applied(a)
                 /\ logs' = logs (+) SetToBag({rule_tasks_log(a, prod)})
                 /\ last' = Ended("apply_rule", "success")
    /\ UNCHANGED <<rules, queue, notifs, now, pc, local, cpc, clocal, crashes>>
    /\ UNCHANGED <<syncVars, fnVars>>
    /\ failed_runs' = Recorded(Msg("apply", a), last')

\* check_scheduled_rules: filter(status='pending', scheduled_at__lte=now)
\* names no field of RuleApplication and raises FieldError
rule_tasks_check_scheduled_rules ==
    /\ IF Defines(RuleApplicationFields, "scheduled_at")
       THEN /\ queue' = queue \cup {Msg("apply", a) : a \in {x \in AppIds : apps[x].status = "pending"}}
            /\ last' = Ended("check_scheduled_rules", "success")
       ELSE /\ last' = Ended("check_scheduled_rules", "FieldError")
            /\ UNCHANGED queue
    /\ UNCHANGED <<rules, apps, product, logs, notifs, now, pc, local, cpc, clocal, crashes>>
    /\ UNCHANGED <<syncVars, fnVars, failed_runs>>

\* restore_product(rule_application_id): one transaction.  A row that is not
\* applied is skipped.  Otherwise the product is made visible and the log
\* row written, then application.save(update_fields=['status',
\* 'restored_at']) raises ValueError (restored_at is no field) and the
\* transaction is rolled back.
rule_tasks_restore_product(a) ==
    /\ a \in AppIds
    /\ IF apps[a].status # "applied"
       THEN /\ last' = Ended("restore_product", "skipped")
            /\ UNCHANGED <<apps, product, logs>>
       ELSE IF ~Defines(RuleApplicationFields, "restored_at")
       THEN /\ last' = Ended("restore_product", "error")
            /\ UNCHANGED <<apps, product, logs>>
       ELSE /\ product' = [product EXCEPT ![apps[a].product].is_visible = TRUE,
                                          ![apps[a].product].hidden_at = NoTime,
                                          ![apps[a].product].scheduled_return = NoTime]
            /\ logs' = logs (+) SetToBag({[product |-> apps[a].product, action |-> "schedule",
                                           previous_status |-> "hidden",
                                           new_status |-> "visible", app |-> a]})
            /\ apps' = [apps EXCEPT ![a].status = "restored"]
            /\ last' = Ended("restore_product", "success")
    /\ UNCHANGED <<rules, queue, notifs, now, pc, local, cpc, clocal, crashes>>
    /\ UNCHANGED <<syncVars, fnVars>>
    /\ failed_runs' = Recorded(Msg("restore", a), last')

\* the calls of tasks.py by caller c and worker w
TasksPy(c, w) ==
    \/ \E r \in RuleIds, p \in Products : schedule_rule_application(c, r, p)
    \/ schedule_rule_application_create(c)
    \/ \E a \in RowIds : apply_rule(w, a)
    \/ \E ok \in BOOLEAN : apply_rule_act(w, ok)
    \/ apply_rule_save(w)
    \/ \E a \in RowIds : restore_product(w, a)
    \/ \E ok \in BOOLEAN : restore_product_act(w, ok)
    \/ restore_product_save(w)

\* the calls of rule_tasks.py
RuleTasksPy ==
    \/ \E r \in RuleIds, p \in Products : rule_tasks_schedule_rule_application(r, p)
    \/ \E a \in RowIds : rule_tasks_apply_rule(a)
    \/ rule_tasks_check_scheduled_rules
    \/ \E a \in RowIds : rule_tasks_restore_product(a)

\* one caller and one worker, the tasks of both copies on the same tables:
\* the calls follow one another
Next ==
    \/ Tick
    \/ TasksPy(1, 1)
    \/ check_scheduled_rules
    \/ RuleTasksPy

Spec == Init /\ [][Next]_vars

\* one caller and one worker that may die inside a task
NextCrash ==
    \/ Tick
    \/ TasksPy(1, 1)
    \/ check_scheduled_rules
    \/ \E redeliver \in BOOLEAN : Crash(1, redeliver)

SpecCrash == Init /\ [][NextCrash]_vars

\* two callers of the scheduler run concurrently
NextCallers ==
    \/ Tick
    \/ \E c \in Callers : TasksPy(c, 1)
    \/ check_scheduled_rules

SpecCallers == Init /\ [][NextCallers]_vars

\* two workers run concurrently
NextWorkers ==
    \/ Tick
    \/ \E w \in Workers : TasksPy(1, w)
    \/ check_scheduled_rules

SpecWorkers == Init /\ [][NextWorkers]_vars

(* ======================= properties ==================================== *)
\* number of InventoryLog rows of one action written for RuleApplication a
LogCount(a, action) ==
    BagCardinality([r \in {x \in DOMAIN logs : x.app = a /\ x.action = action} |-> logs[r]])

\* number of notification work items enqueued for RuleApplication a
NotifCount(a) ==
    BagCardinality([r \in {x \in DOMAIN notifs : x.app = a} |-> notifs[r]])

Pairs == RuleIds \X Products

\* a call schedule(r, p) of tasks.py ends in this step
TasksScheduleEnds(r, p) ==
    \E c \in Callers :
        \/ schedule_rule_application(c, r, p) /\ cpc'[c] = "idle"
        \/ schedule_rule_application_create(c) /\ clocal[c] = [rule |-> r, product |-> p]

\* a call schedule(r, p) of either copy ends in this step
ScheduleEnds(r, p) ==
    TasksScheduleEnds(r, p) \/ rule_tasks_schedule_rule_application(r, p)

C2_RepeatedScheduleOnePending ==
    [][\A rp \in Pairs :
          ScheduleEnds(rp[1], rp[2]) => Cardinality(PendingFor(rp[1], rp[2]))' = 1]_vars

\* an execution of apply_rule for a, of either copy, starts in this step on
\* a row that is not pending
ApplyOnNotPending(a) ==
    /\ a \in AppIds
    /\ apps[a].status # "pending"
    /\ (\E w \in Workers : apply_rule(w, a)) \/ rule_tasks_apply_rule(a)

\* C3: apply on a RuleApplication that is not pending returns "skipped" and
\* changes nothing: the RuleApplication table, the product, the InventoryLog
\* and the notifications are as before, and no worker goes on with the task
C3_ApplyNotPendingSkipped ==
    [][\A a \in AppIds :
          ApplyOnNotPending(a) =>
              /\ last' = Ended("apply_rule", "skipped")
              /\ UNCHANGED <<apps, product, logs, notifs, pc, local>>]_vars

C3_Witness ==
    /\ last = Ended("apply_rule", "skipped")
    /\ \E a \in AppIds : apps[a].status \in {"applied", "reversed", "failed"}
                         /\ Msg("apply", a) \notin queue

\* C4: of all executions of apply for one RuleApplication at most one makes
\* the transition: one InventoryLog row and at most one notification
C4_OneTransitionPerApplication ==
    \A a \in AppIds : LogCount(a, "hide") + LogCount(a, "rule") <= 1 /\ NotifCount(a) <= 1

\* C5: the writes of a transition take effect together: no product is hidden
\* and no InventoryLog row is written for a RuleApplication that is still
\* pending, and no product shown again for one that is still applied
C5_TransitionAtomic ==
    /\ \A a \in AppIds :
          /\ apps[a].status = "pending" => LogCount(a, "hide") + LogCount(a, "rule") = 0
          /\ apps[a].status = "applied" => LogCount(a, "show") + LogCount(a, "schedule") = 0
    /\ \A p \in Products :
          ~product[p].is_visible =>
              \E a \in AppIds : apps[a].product = p /\ apps[a].status # "pending"

\* an execution of apply on the pending row a fails in this step: the remote
\* call has no answer (tasks.py) or the body raises (rule_tasks.py)
ApplyFails(a) ==
    \/ \E w \in Workers :
          /\ pc[w] = "act" /\ local[w].task = "apply" /\ local[w].id = a
          /\ rules[local[w].app.rule].action_type = "hide_product"
          /\ apply_rule_act(w, FALSE)
    \/ /\ a \in AppIds
       /\ apps[a].status = "pending"
       /\ rule_tasks_apply_rule(a)
       /\ last' = Ended("apply_rule", "error")

\* C6: when the remote call fails or a step raises during apply of a pending
\* RuleApplication, the RuleApplication ends failed and the product and the
\* InventoryLog are as before
C6_FailedApplyMarksFailed ==
    [][\A a \in AppIds :
          ApplyFails(a) => apps'[a].status = "failed" /\ UNCHANGED <<product, logs>>]_vars

\* C7: the status of every RuleApplication is one of pending, applied,
\* reversed, failed
C7_StatusInChoices ==
    \A a \in AppIds : apps[a].status \in STATUS_CHOICES

C7_Witness ==
    \E a \in AppIds : apps[a].status = "reversed" /\ LogCount(a, "show") > 0

\* C8: a RuleApplication is created pending and its status only changes
\* pending -> applied, pending -> failed or applied -> reversed; failed and
\* reversed are final
LifecycleSteps ==
    {<<"pending", "applied">>, <<"pending", "failed">>, <<"applied", "reversed">>}

C8_Lifecycle ==
    [][/\ \A a \in AppIds :
             apps'[a].status # apps[a].status =>
                 <<apps[a].status, apps'[a].status>> \in LifecycleSteps
       /\ \A a \in (1..Len(apps')) \ AppIds : apps'[a].status = "pending"]_vars

\* an execution of restore_product for a, of either copy, starts in this
\* step on a row that is not applied
RestoreOnNotApplied(a) ==
    /\ a \in AppIds
    /\ apps[a].status # "applied"
    /\ (\E w \in Workers : restore_product(w, a)) \/ rule_tasks_restore_product(a)

HideNow(r) == rules[r].action_type = "hide_product" /\ rules[r].delay_minutes = 0

\* an execution of apply on the pending row a, whose rule is r, ends in this
\* step after the remote call was answered
ApplyCompletes(a, r) ==
    \/ \E w \in Workers :
          /\ pc[w] = "save" /\ local[w].task = "apply" /\ local[w].id = a
          /\ local[w].app.rule = r
          /\ apply_rule_save(w)
    \/ /\ a \in AppIds
       /\ apps[a].status = "pending" /\ apps[a].rule = r
       /\ rule_tasks_apply_rule(a)

\* C10: for a hide_product rule without delay, schedule leaves a pending
\* RuleApplication whose apply is dispatched at once, and when that apply
\* completes the product is not visible, the RuleApplication is applied and
\* one InventoryLog row with action "hide" is written for it
C10_ScenarioA ==
    [][\A r \in RuleIds :
          HideNow(r) =>
              /\ \A p \in Products :
                    ScheduleEnds(r, p) =>
                        \E a \in PendingFor(r, p)' : Msg("apply", a) \in queue'
              /\ \A a \in AppIds :
                    ApplyCompletes(a, r) =>
                        /\ ~product'[apps[a].product].is_visible
                        /\ apps'[a].status = "applied"
                        /\ LogCount(a, "hide")' = 1]_vars

(* ---------------- apps/inventory/tasks/sync_tasks.py -------------------- *)
\* the stores that exist, and an id no ShopifyStore row has
StoreIds == {1}
SyncStoreIds == {1, 2}

\* what the remote catalog answers: products with their variants, each
\* variant with the inventory levels of its inventory item; available is
\* <<n>>, or <<>> where the remote sends null
RemoteCatalog ==
    << [id |-> 1, data |-> "a",
        variants |-> << [id |-> 11, inventory_item_id |-> 111,
                         levels |-> << [location_id |-> 1, available |-> <<3>>] >>],
                        [id |-> 12, inventory_item_id |-> 112,
                         levels |-> << [location_id |-> 2, available |-> <<>>] >>] >>],
       [id |-> 2, data |-> "b",
        variants |-> << [id |-> 21, inventory_item_id |-> 121,
                         levels |-> << [location_id |-> 1, available |-> <<0>>] >>] >>] >>

\* shopify.Product.find(limit=250) and next_page(): the pages of the answer
\* (one product a page here)
Pages == 1..Len(RemoteCatalog)

\* level_data.available or 0
AvailableOrZero(x) == IF x = <<>> THEN 0 ELSE x[1]

Range(f) == {f[i] : i \in DOMAIN f}

\* the product upsert as a plain insert
InsertProduct(rows, pd) ==
    rows \cup {[shopify_id |-> pd.id, data |-> pd.data, last_synced |-> now, updated_at |-> now]}

\* Product.objects.update_or_create(store=, shopify_id=, defaults={..., 'last_synced': now})
UpsertProduct(rows, pd) ==
    {r \in rows : r.shopify_id # pd.id}
        \cup {[shopify_id |-> pd.id, data |-> pd.data, last_synced |-> now, updated_at |-> now]}

\* ProductVariant.objects.update_or_create(product=, shopify_id=, defaults=variant_defaults)
\* for every variant of pd, then
\* ProductVariant.objects.filter(product=).exclude(shopify_id__in=synced_variant_ids).update(updated_at=now)
UpsertVariants(rows, pd) ==
    LET synced == {vd.id : vd \in Range(pd.variants)}
        others == {r \in rows : ~(r.product = pd.id /\ r.shopify_id \in synced)}
    IN {IF r.product = pd.id THEN [r EXCEPT !.updated_at = now] ELSE r : r \in others}
        \cup {[product |-> pd.id, shopify_id |-> vd.id,
               inventory_item_id |-> vd.inventory_item_id, updated_at |-> now] : vd \in Range(pd.variants)}

\* one handler around the whole loop: a failing lookup skips the levels of
\* every variant of the product
LookedUnlessAnyFails(pd, lookupFails) == IF lookupFails = {} THEN Range(pd.variants) ELSE {}

\* the variants of pd whose inventory levels are read
Looked(pd, lookupFails) == {vd \in Range(pd.variants) : vd.id \notin lookupFails}

\* InventoryLocation.objects.get_or_create(store=, shopify_id=level_data.location_id)
GetOrCreateLocations(rows, pd, lookupFails) ==
    rows \cup {[shopify_id |-> ld.location_id] :
                  ld \in UNION {Range(vd.levels) : vd \in Looked(pd, lookupFails)}}

\* InventoryLevel.objects.update_or_create(variant=, location=, defaults={available, last_synced})
UpsertLevels(rows, pd, lookupFails) ==
    LET new == UNION {{[variant |-> vd.id, location |-> ld.location_id,
                        available |-> AvailableOrZero(ld.available), last_synced |-> now] :
                           ld \in Range(vd.levels)} : vd \in Looked(pd, lookupFails)}
    IN {r \in rows : ~\E n \in new : n.variant = r.variant /\ n.location = r.location} \cup new

\* the products not seen are deleted
DeleteUnsynced(rows) ==
    {r \in rows : r.shopify_id \in {pd.id : pd \in Range(RemoteCatalog)}}

\* Product.objects.filter(store=).exclude(shopify_id__in=synced_product_ids).update(updated_at=now)
TouchUnsynced(rows) ==
    LET synced == {pd.id : pd \in Range(RemoteCatalog)} IN
    {IF r.shopify_id \in synced THEN r ELSE [r EXCEPT !.updated_at = now] : r \in rows}

\* @shared_task(bind=True, max_retries=3, default_retry_delay=60)
max_retries == 3
default_retry_delay == 60

\* self.retry(exc=e) in the execution of work item m: the work item is sent
\* again with retries + 1 and the countdown default_retry_delay, unless that
\* exceeds max_retries; then exc is raised
self_retry(q, m) ==
    IF m.retries + 1 > max_retries THEN q
    ELSE q (+) SetToBag({[store |-> m.store, retries |-> m.retries + 1,
                          countdown |-> default_retry_delay]})

\* the work items of sync_store_data
SyncMessages ==
    [store : SyncStoreIds, retries : 0..max_retries, countdown : {0, default_retry_delay}]

\* raise self.retry(exc=e) in the handler of step 2, 3 or 4: the Retry it
\* raises is an Exception, the outer handler catches it and calls
\* self.retry(exc=e) again
RetryTwice(q, m) == self_retry(self_retry(q, m), m)

\* the finally block left out: the session stays as it is
keep_session == session

\* finally: shopify.ShopifyResource.clear_session()
clear_session == FALSE

\* the execution ends: the finally block runs and the task returns or raises
SyncEnds(status) ==
    /\ session' = clear_session
    /\ sync' = NoSync
    /\ last' = Ended("sync_store_data", status)

\* a failing step that retries without saving the status
SyncFailsStatusKept(q, m, step) ==
    /\ UNCHANGED store
    /\ syncq' = RetryTwice(q, m)
    /\ SyncEnds(step)

\* a step fails: sync_status = 'failed' is saved, then in the handler of the
\* step and again in the outer handler, retry; the execution ends with the
\* exception of the step
SyncFails(q, m, step) ==
    /\ store' = [store EXCEPT !.sync_status = "failed"]
    /\ syncq' = RetryTwice(q, m)
    /\ SyncEnds(step)

\* the token check left out
token_unchecked(st) == TRUE

\* if not store.access_token
has_access_token(st) == st.access_token

\* accounts/views.py: sync_store_data.delay(store.id), then
\* store.sync_status = 'pending' saved on the store the view holds
sync_trigger(sid) ==
    /\ executions.triggers < MaxTriggers
    /\ executions' = [executions EXCEPT !.triggers = @ + 1]
    /\ syncq' = syncq (+) SetToBag({[store |-> sid, retries |-> 0, countdown |-> 0]})
    /\ store' = IF sid \in StoreIds THEN [store EXCEPT !.sync_status = "pending"] ELSE store
    /\ last' = NoResult
    /\ UNCHANGED <<catalog, sync, session>>
    /\ UNCHANGED <<ruleVars, now, fnVars>>

\* AppUninstalledWebhook.process_webhook: store.access_token = None
app_uninstalled ==
    /\ store.access_token
    /\ store' = [store EXCEPT !.access_token = FALSE]
    /\ last' = NoResult
    /\ UNCHANGED <<catalog, syncq, sync, session, executions>>
    /\ UNCHANGED <<ruleVars, now, fnVars>>

\* a worker receives sync_store_data(store_id): steps 1 and 2, the store
\* lookup, the token check and the activation of the session
sync_store_data(m, activated) ==
    /\ sync.pc = "idle"
    /\ BagIn(m, syncq)
    /\ executions.started < MaxExecutions
    /\ executions' = [executions EXCEPT !.started = @ + 1]
    /\ LET q == syncq (-) SetToBag({m}) IN
       IF m.store \notin StoreIds
       THEN /\ activated
            /\ syncq' = q
            /\ SyncEnds("error: store not found")
            /\ UNCHANGED store
       ELSE IF ~has_access_token(store)
       THEN /\ activated
            /\ store' = [store EXCEPT !.sync_status = "failed"]
            /\ syncq' = q
            /\ SyncEnds("error: no access token")
       ELSE IF activated
       THEN /\ session' = TRUE
            /\ sync' = [pc |-> "fetch", msg |-> m, idx |-> 1, clean |-> TRUE]
            /\ syncq' = q
            /\ last' = NoResult
            /\ UNCHANGED store
       ELSE SyncFails(q, m, "session activation failed")
    /\ UNCHANGED catalog
    /\ UNCHANGED <<ruleVars, now, fnVars>>

\* step 3: the pages are fetched one after another; failAt is the page whose
\* fetch raises, 0 if none does.  Nothing is written locally before the
\* last page has arrived.
sync_fetch(failAt) ==
    /\ sync.pc = "fetch"
    /\ IF failAt = 0
       THEN /\ sync' = [sync EXCEPT !.pc = "process"]
            /\ last' = NoResult
            /\ UNCHANGED <<store, syncq, session>>
       ELSE SyncFails(syncq, sync.msg, "product fetch failed")
    /\ UNCHANGED <<catalog, executions>>
    /\ UNCHANGED <<ruleVars, now, fnVars>>

\* step 4, one product of all_products: the product and its variants are
\* upserted, and the inventory levels of every variant whose lookup
\* answers (lookupFails: the variants whose lookup raises; the handler logs
\* a warning and goes on).  raises: Product.objects.update_or_create raises
\* and the handler of step 4 ends the execution.
sync_process(lookupFails, raises) ==
    /\ sync.pc = "process"
    /\ sync.idx <= Len(RemoteCatalog)
    /\ LET pd == RemoteCatalog[sync.idx] IN
       IF raises
       THEN /\ lookupFails = {}
            /\ SyncFails(syncq, sync.msg, "product processing failed")
            /\ UNCHANGED catalog
       ELSE /\ lookupFails \subseteq {vd.id : vd \in Range(pd.variants)}
            /\ catalog' = [products  |-> UpsertProduct(catalog.products, pd),
                           variants  |-> UpsertVariants(catalog.variants, pd),
                           locations |-> GetOrCreateLocations(catalog.locations, pd, lookupFails),
                           levels    |-> UpsertLevels(catalog.levels, pd, lookupFails)]
            /\ sync' = [sync EXCEPT !.idx = @ + 1, !.clean = @ /\ lookupFails = {}]
            /\ last' = NoResult
            /\ UNCHANGED <<store, syncq, session>>
    /\ UNCHANGED executions
    /\ UNCHANGED <<ruleVars, now, fnVars>>

\* step 5 without the timestamp: only sync_status is saved
sync_finish_status_only ==
    /\ sync.pc = "process"
    /\ sync.idx > Len(RemoteCatalog)
    /\ catalog' = [catalog EXCEPT !.products = TouchUnsynced(@)]
    /\ store' = [store EXCEPT !.sync_status = "success"]
    /\ SyncEnds("success")
    /\ UNCHANGED <<syncq, executions>>
    /\ UNCHANGED <<ruleVars, now, fnVars>>

\* the end of step 4 and step 5: the products not seen get a new
\* updated_at, the store is saved with last_sync_at and sync_status 'success'
sync_finish ==
    /\ sync.pc = "process"
    /\ sync.idx > Len(RemoteCatalog)
    /\ catalog' = [catalog EXCEPT !.products = TouchUnsynced(@)]
    /\ store' = [store EXCEPT !.last_sync_at = now, !.sync_status = "success"]
    /\ SyncEnds("success")
    /\ UNCHANGED <<syncq, executions>>
    /\ UNCHANGED <<ruleVars, now, fnVars>>

\* one worker runs the executions of sync_store_data one after another
NextSync ==
    \/ Tick
    \/ \E sid \in SyncStoreIds : sync_trigger(sid)
    \/ app_uninstalled
    \/ \E m \in SyncMessages, activated \in BOOLEAN : sync_store_data(m, activated)
    \/ \E failAt \in {0} \cup Pages : sync_fetch(failAt)
    \/ \E lookupFails \in SUBSET {11, 12, 21}, raises \in BOOLEAN : sync_process(lookupFails, raises)
    \/ sync_finish

SpecSync == Init /\ [][NextSync]_vars

(* ---------------- scenario B: a schedule_return rule -------------------- *)
\* the Rule rows of a store whose first rule has action_type 'schedule_return',
\* no delay and restore_after_days 1
ReturnRuleTable ==
    << [action_type |-> "schedule_return", delay_minutes |-> 0, auto_restore |-> TRUE, restore_after_days |-> 1],
       [action_type |-> "hide_product",    delay_minutes |-> 0, auto_restore |-> TRUE, restore_after_days |-> 1] >>

InitReturn ==
    /\ rules = ReturnRuleTable
    /\ apps = <<>>
    /\ product = [p \in Products |-> NewProduct]
    /\ logs = EmptyBag
    /\ queue = {}
    /\ notifs = EmptyBag
    /\ now = 0
    /\ pc = [w \in Workers |-> "idle"]
    /\ local = [w \in Workers |-> NoLocal]
    /\ cpc = [c \in Callers |-> "idle"]
    /\ clocal = [c \in Callers |-> NoCall]
    /\ last = NoResult
    /\ crashes = 0
    /\ failed_runs = {}
    /\ SyncInit
    /\ FnInit

SpecReturn == InitReturn /\ [][Next]_vars

\* the rule of scenario B: schedule_return without delay
ReturnNow(r) == rules[r].action_type = "schedule_return" /\ rules[r].delay_minutes = 0

\* an execution of apply on the pending row a ends in this step
ApplyEnds(a) ==
    \/ \E w \in Workers :
          /\ local[w].task = "apply" /\ local[w].id = a
          /\ \/ (\E ok \in BOOLEAN : apply_rule_act(w, ok)) /\ pc'[w] = "idle"
             \/ apply_rule_save(w)
    \/ /\ a \in AppIds
       /\ apps[a].status = "pending"
       /\ rule_tasks_apply_rule(a)

\* C11: an apply of a pending RuleApplication of a schedule_return rule
\* without delay, at time T, leaves it applied with restore_scheduled_for =
\* T + restore_after_days (from where the poller dispatches the restore
\* that reverses it and shows the product)
C11_ScenarioB ==
    [][\A a \in AppIds :
          (ReturnNow(apps[a].rule) /\ ApplyEnds(a)) =>
              /\ apps'[a].status = "applied"
              /\ apps'[a].restore_scheduled_for = now + rules[apps[a].rule].restore_after_days]_vars

(* ---------------- properties of the sync --------------------------------- *)
\* the rows of the catalog without their last_synced / updated_at stamps
StripCatalog(c) ==
    [products  |-> {[shopify_id |-> r.shopify_id, data |-> r.data] : r \in c.products},
     variants  |-> {[product |-> r.product, shopify_id |-> r.shopify_id,
                     inventory_item_id |-> r.inventory_item_id] : r \in c.variants},
     locations |-> c.locations,
     levels    |-> {[variant |-> r.variant, location |-> r.location,
                     available |-> r.available] : r \in c.levels}]

\* the number of rows of each table
RowCounts(c) ==
    <<Cardinality(c.products), Cardinality(c.variants),
      Cardinality(c.locations), Cardinality(c.levels)>>

\* the rows one run without any failure leaves, read off the remote catalog
RemoteVariants == UNION {Range(pd.variants) : pd \in Range(RemoteCatalog)}

ExpectedCatalog ==
    [products  |-> {[shopify_id |-> pd.id, data |-> pd.data] : pd \in Range(RemoteCatalog)},
     variants  |-> UNION {{[product |-> pd.id, shopify_id |-> vd.id,
                            inventory_item_id |-> vd.inventory_item_id] : vd \in Range(pd.variants)} :
                             pd \in Range(RemoteCatalog)},
     locations |-> {[shopify_id |-> ld.location_id] :
                       ld \in UNION {Range(vd.levels) : vd \in RemoteVariants}},
     levels    |-> UNION {{[variant |-> vd.id, location |-> ld.location_id,
                            available |-> IF ld.available = <<>> THEN 0 ELSE ld.available[1]] :
                              ld \in Range(vd.levels)} : vd \in RemoteVariants}]

Synced == StripCatalog(catalog) = ExpectedCatalog /\ RowCounts(catalog) = RowCounts(ExpectedCatalog)

C13_FetchFailureWritesNothing ==
    [][/\ (\E m \in SyncMessages, activated \in BOOLEAN : sync_store_data(m, activated))
             => UNCHANGED catalog
       /\ sync.pc = "fetch" => UNCHANGED catalog
       /\ (\E failAt \in Pages : sync_fetch(failAt))
             => store'.sync_status = "failed" /\ sync'.pc = "idle"]_vars

C13_Witness ==
    /\ last = Ended("sync_store_data", "product fetch failed")
    /\ store.sync_status = "failed"
    /\ sync.pc = "idle"

(* ---------------- tasks.py sync_product: the out-of-stock test ----------- *)
MaxLevels == 3
MaxQty == 2

\* the available quantities of a product's (variant, location) rows
Quantities == -MaxQty..MaxQty
LevelInputs == UNION {[1..n -> Quantities] : n \in 1..MaxLevels}

RECURSIVE sum(_)
\* sum(InventoryLevel.objects.filter(variant__product=product).values_list('available', flat=True))
sum(xs) == IF xs = <<>> THEN 0 ELSE Head(xs) + sum(Tail(xs))

total_inventory(levels) == sum(levels)

\* the test with < in place of <=
is_out_of_stock_negative(levels) == total_inventory(levels) < 0

\* 'is_out_of_stock': total_inventory <= 0
is_out_of_stock(levels) == total_inventory(levels) <= 0

\* the end of sync_product: the classification of the product's levels
sync_product_classify ==
    /\ result = "none"
    /\ arg \in LevelInputs
    /\ result' = IF is_out_of_stock(arg) THEN "out_of_stock" ELSE "in_stock"
    /\ last' = Ended("sync_product", "success")
    /\ UNCHANGED <<arg, ruleVars, now, syncVars>>

InitStock == StateInit /\ arg \in LevelInputs /\ result = "none"

NextStock == sync_product_classify

SpecStock == InitStock /\ [][NextStock]_vars

Classified == result \in {"out_of_stock", "in_stock"}

OnePairHasOne == \E i \in DOMAIN arg : arg[i] = 1

\* C14 as stated: quantities summing to 0 are out of stock, and a product
\* with available = 1 on some pair is not out of stock whatever the integer
\* quantities (negative ones included) of its other pairs
C14_OutOfStockThreshold ==
    Classified =>
        /\ sum(arg) = 0 => result = "out_of_stock"
        /\ OnePairHasOne => result = "in_stock"

\* C14 amended: quantities summing to 0 are out of stock, and a product with
\* available = 1 on some pair is not out of stock whenever the quantities of
\* its other pairs sum to 0 or more
C14_OutOfStockThresholdSum ==
    Classified =>
        /\ sum(arg) = 0 => result = "out_of_stock"
        /\ (\E i \in DOMAIN arg :
               arg[i] = 1 /\ sum([j \in 1..(Len(arg) - 1) |-> IF j < i THEN arg[j] ELSE arg[j + 1]]) >= 0)
              => result = "in_stock"

C14_Witness ==
    /\ result = "in_stock"
    /\ OnePairHasOne
    /\ \E j \in DOMAIN arg : arg[j] < 0

(* ---------------- properties of the sync, continued ---------------------- *)
\* C15: an execution of the sync for a store without access token ends at
\* once: sync_status becomes 'failed', no session is opened and no fetch
\* begun, no catalog row is created or modified, and the work item is
\* consumed without a retry being scheduled
C15_NoTokenFailsImmediately ==
    [][\A m \in SyncMessages :
          (m.store \in StoreIds /\ ~store.access_token /\ sync_store_data(m, TRUE)) =>
              /\ store'.sync_status = "failed"
              /\ ~session' /\ sync'.pc = "idle"
              /\ catalog' = catalog
              /\ syncq' = syncq (-) SetToBag({m})
              /\ last' = Ended("sync_store_data", "error: no access token")]_vars

C15_Witness ==
    /\ last = Ended("sync_store_data", "error: no access token")
    /\ ~store.access_token
    /\ store.sync_status = "failed"

\* C16: a triggered sync is executed at most 3 times in all, the first
\* execution included, so the executions begun never exceed three for each
\* trigger
C16_AtMostThreeExecutions == executions.started <= 3 * executions.triggers

\* C17: whenever no execution of the sync is under way, however the last one
\* ended, the worker's remote session is released
C17_SessionReleased == sync.pc = "idle" => ~session

C17_Witness ==
    /\ last = Ended("sync_store_data", "product processing failed")
    /\ sync.pc = "idle"
    /\ ~session

\* the level rows of the variants vs, without their stamps
LevelsOf(c, vs) == {r \in StripCatalog(c).levels : r.variant \in vs}

\* C18: when the inventory lookup of some variants of a product fails, the
\* levels of those variants are left as they were, the product, all its
\* variants and the levels of its other variants are upserted, and the
\* execution goes on without failing or scheduling a retry; a run with
\* nothing but lookup failures ends in success
C18_LookupFailureSkipsVariant ==
    [][/\ \A lookupFails \in SUBSET {11, 12, 21} :
            (lookupFails # {} /\ sync_process(lookupFails, FALSE)) =>
                LET pd == RemoteCatalog[sync.idx]
                    others == {vd.id : vd \in Range(pd.variants)} \ lookupFails
                IN /\ LevelsOf(catalog', lookupFails) = LevelsOf(catalog, lookupFails)
                   /\ \E r \in catalog'.products : r.shopify_id = pd.id /\ r.last_synced = now
                   /\ \A vd \in Range(pd.variants) :
                         \E r \in catalog'.variants : r.product = pd.id /\ r.shopify_id = vd.id
                   /\ LevelsOf(catalog', others) = LevelsOf(ExpectedCatalog, others)
                   /\ sync'.pc = "process" /\ sync'.idx = sync.idx + 1
                   /\ store' = store /\ syncq' = syncq
       /\ (sync_finish /\ ~sync.clean) =>
              /\ store'.sync_status = "success"
              /\ syncq' = syncq]_vars

C18_Witness ==
    /\ last = Ended("sync_store_data", "success")
    /\ store.sync_status = "success"
    /\ StripCatalog(catalog).products = ExpectedCatalog.products
    /\ StripCatalog(catalog).variants = ExpectedCatalog.variants
    /\ LevelsOf(catalog, {11}) = {}
    /\ LevelsOf(catalog, {12}) = LevelsOf(ExpectedCatalog, {12})

(* ---------------- rule_matches_product ----------------------------------- *)
\* a nullable CharField: <<>> is None, <<s>> the string s
None == <<>>
Texts == {None, <<"">>, <<"Shoes">>, <<"shoes">>}
Tags == {None, <<"sale">>}

\* the rules and products the matcher is called with
MatchInputs ==
    [rule    : [product_type_filter : Texts, vendor_filter : Texts,
                tag_filter : Tags, collection_filter : Tags],
     product : [product_type : Texts, vendor : Texts]]

\* the truth value of a nullable string: None and '' are false
Truthy(x) == x # None /\ x # <<"">>

\* str.lower on the strings of Texts
lower(x) == IF x = <<"Shoes">> THEN <<"shoes">> ELSE x

\* the matcher comparing without regard to case
rule_matches_product_iexact(rule, prod) ==
    IF Truthy(rule.product_type_filter) /\ lower(rule.product_type_filter) # lower(prod.product_type)
    THEN FALSE
    ELSE IF Truthy(rule.vendor_filter) /\ lower(rule.vendor_filter) # lower(prod.vendor)
    THEN FALSE
    ELSE TRUE

\* tasks.py rule_matches_product
rule_matches_product(rule, prod) ==
    IF Truthy(rule.product_type_filter) /\ rule.product_type_filter # prod.product_type
    THEN FALSE
    ELSE IF Truthy(rule.vendor_filter) /\ rule.vendor_filter # prod.vendor
    THEN FALSE
    ELSE TRUE

\* tasks/utils.py rule_matches_product
utils_rule_matches_product(rule, prod) ==
    IF Truthy(rule.product_type_filter) /\ rule.product_type_filter # prod.product_type
    THEN FALSE
    ELSE IF Truthy(rule.vendor_filter) /\ rule.vendor_filter # prod.vendor
    THEN FALSE
    ELSE TRUE

Returned(b) == IF b THEN "True" ELSE "False"

\* a call of the matcher of tasks.py
call_rule_matches_product ==
    /\ result = "none"
    /\ arg \in MatchInputs
    /\ result' = Returned(rule_matches_product(arg.rule, arg.product))
    /\ last' = Ended("rule_matches_product", "tasks")
    /\ UNCHANGED <<arg, ruleVars, now, syncVars>>

\* a call of the matcher of tasks/utils.py
call_utils_rule_matches_product ==
    /\ result = "none"
    /\ arg \in MatchInputs
    /\ result' = Returned(utils_rule_matches_product(arg.rule, arg.product))
    /\ last' = Ended("rule_matches_product", "utils")
    /\ UNCHANGED <<arg, ruleVars, now, syncVars>>

InitMatch == StateInit /\ arg \in MatchInputs /\ result = "none"

NextMatch == call_rule_matches_product \/ call_utils_rule_matches_product

SpecMatch == InitMatch /\ [][NextMatch]_vars

\* a filter is empty or unset, or equals the attribute character by character
FilterAdmits(f, attribute) == f \in {None, <<"">>} \/ f = attribute

\* C19: the matcher returns true exactly when the product-type filter is
\* empty, unset or equal to the product's type and the vendor filter is
\* empty, unset or equal to the product's vendor, equality being case
\* sensitive; the tag and collection filters play no part; and the call
\* changes neither its arguments nor any stored state
C19_MatchesExactly ==
    [][(result = "none" /\ result' # "none") =>
          /\ result' = "True" <=>
                 /\ FilterAdmits(arg.rule.product_type_filter, arg.product.product_type)
                 /\ FilterAdmits(arg.rule.vendor_filter, arg.product.vendor)
          /\ UNCHANGED <<arg, ruleVars, now, syncVars>>]_vars

C19_Witness ==
    /\ result = "False"
    /\ last = Ended("rule_matches_product", "tasks")
    /\ arg.rule.product_type_filter = <<"Shoes">>
    /\ arg.product.product_type = <<"shoes">>
    /\ arg.rule.vendor_filter = None
    /\ arg.rule.tag_filter = <<"sale">>

(* ---------------- schedule on an existing pending row -------------------- *)
\* C20: when a pending application exists for (rule, product), schedule
\* leaves its triggered_at, scheduled_for and restore_scheduled_for as they
\* are, changes no other row and enqueues no apply work item
C20_ScheduleOnPendingNoOp ==
    [][\A c \in Callers, r \in RuleIds, p \in Products :
          (PendingFor(r, p) # {} /\ schedule_rule_application(c, r, p)) =>
              /\ apps' = apps
              /\ queue' = queue]_vars

(* ---------------- tasks.py with its exception paths ---------------------- *)
\* the ends of apply_rule in its handler and the notification task
TasksPyFaults(w) ==
    \/ apply_rule_raises(w)
    \/ apply_rule_enqueue_raises(w)
    \/ \E sent \in BOOLEAN : send_rule_applied_notification(sent)

NextFaults ==
    \/ Tick
    \/ TasksPy(1, 1)
    \/ TasksPyFaults(1)
    \/ check_scheduled_rules
    \/ RuleTasksPy

SpecFaults == Init /\ [][NextFaults]_vars

(* ---------------- properties of the poller ------------------------------- *)
\* a run of the poller, of either copy
PollerRuns == check_scheduled_rules \/ rule_tasks_check_scheduled_rules

\* C21: a run of the poller at time now dispatches apply for exactly the
\* pending applications with scheduled_for <= now, restore for exactly the
\* applied ones with restore_scheduled_for <= now, and nothing else
C21_PollerDispatchesDue ==
    [][PollerRuns =>
          queue' = queue
              \cup {Msg("apply", a) : a \in {x \in AppIds :
                       /\ apps[x].status = "pending"
                       /\ apps[x].scheduled_for # NoTime
                       /\ apps[x].scheduled_for <= now}}
              \cup {Msg("restore", a) : a \in {x \in AppIds :
                       /\ apps[x].status = "applied"
                       /\ apps[x].restore_scheduled_for # NoTime
                       /\ apps[x].restore_scheduled_for <= now}}]_vars

(* ---------------- apply and restore: outcomes ---------------------------- *)
\* the action types some copy of apply_rule has a branch for
SupportedActions == {"hide_product", "schedule_return"}

\* C22: an apply of a pending RuleApplication whose rule has an action type
\* without a branch ends with the RuleApplication failed and a note
\* written, the product and the InventoryLog as before, and an error
\* result returned
C22_UnsupportedActionFails ==
    [][\A a \in AppIds :
          (/\ apps[a].status = "pending"
           /\ rules[apps[a].rule].action_type \notin SupportedActions
           /\ ApplyEnds(a)) =>
              /\ apps'[a].status = "failed"
              /\ apps'[a].notes # ""
              /\ UNCHANGED <<product, logs>>
              /\ last' = Ended("apply_rule", "error")]_vars

\* an execution of restore on the applied row a, whose remote call was
\* answered, ends in this step
RestoreCompletes(a) ==
    \/ \E w \in Workers :
          /\ pc[w] = "save" /\ local[w].task = "restore" /\ local[w].id = a
          /\ restore_product_save(w)
    \/ /\ a \in AppIds
       /\ apps[a].status = "applied"
       /\ rule_tasks_restore_product(a)

\* C23: a restore executed on an applied RuleApplication leaves the product
\* visible with hidden_at and scheduled_return cleared, one InventoryLog row
\* written for the restore, and the RuleApplication reversed
C23_RestoreEffects ==
    [][\A a \in AppIds :
          RestoreCompletes(a) =>
              /\ product'[apps[a].product].is_visible
              /\ product'[apps[a].product].hidden_at = NoTime
              /\ product'[apps[a].product].scheduled_return = NoTime
              /\ (LogCount(a, "show") + LogCount(a, "schedule"))' = 1
              /\ apps'[a].status = "reversed"]_vars

\* C24: once an execution of apply for a RuleApplication has run and failed,
\* no run of the poller dispatches apply for that RuleApplication again
C24_FailedApplyNotRedispatched ==
    [][\A a \in AppIds :
          (Msg("apply", a) \in failed_runs /\ PollerRuns) =>
              Msg("apply", a) \notin queue' \ queue]_vars

\* an execution of restore_product of tasks.py on row a fails in this step:
\* the remote call has no answer or the action type has no reversal
RestoreFails(a) ==
    \E w \in Workers :
        /\ pc[w] = "act" /\ local[w].task = "restore" /\ local[w].id = a
        /\ \E ok \in BOOLEAN : restore_product_act(w, ok)
        /\ last' = Ended("restore_product", "error")

\* C25: a restore that fails leaves the RuleApplication failed, and no later
\* run of the poller dispatches restore for it again
C25_FailedRestoreTerminal ==
    [][\A a \in AppIds :
          /\ RestoreFails(a) => apps'[a].status = "failed"
          /\ (Msg("restore", a) \in failed_runs /\ PollerRuns) =>
                 Msg("restore", a) \notin queue' \ queue]_vars

(* ---------------- the hand-off to the notification dispatcher ------------ *)
\* the hand-off of the notification after the writes of apply on row a fails
\* in this step: in tasks.py the enqueue raises after rule_app.save(); in
\* rule_tasks.py the body has hidden the product, marked the row applied and
\* written the log row and raises at 'if rule.send_notification'
HandOffFails(a) ==
    \/ \E w \in Workers :
          /\ pc[w] = "save" /\ local[w].task = "apply" /\ local[w].id = a
          /\ apply_rule_enqueue_raises(w)
    \/ /\ a \in AppIds
       /\ apps[a].status = "pending"
       /\ rules[apps[a].rule].action_type = "hide_product"
       /\ rule_tasks_apply_raises(a) # "none"
       /\ rule_tasks_apply_rule(a)

\* C26: when the hand-off of the notification fails after the writes of
\* apply, the RuleApplication is applied, the product hidden and the
\* InventoryLog row written all the same; and a notification task that
\* fails changes none of them
C26_NotificationFailureKeepsTransition ==
    [][/\ \A a \in AppIds :
            HandOffFails(a) =>
                /\ apps'[a].status = "applied"
                /\ ~product'[apps[a].product].is_visible
                /\ (LogCount(a, "hide") + LogCount(a, "rule"))' >= 1
       /\ send_rule_applied_notification(FALSE) => UNCHANGED <<apps, product, logs>>]_vars

(* ---------------- the sync status of the store --------------------------- *)
\* C27: while an execution of the sync for a store with a token is under
\* way, from its first effect on, store.sync_status is 'in_progress'
C27_InProgressWhileRunning ==
    sync.pc \in {"fetch", "process"} => store.sync_status = "in_progress"

\* an execution for a store with a token ends in this step
SyncExecutionEnds ==
    /\ last'.op = "sync_store_data"
    /\ last'.status \notin {"error: store not found", "error: no access token"}

\* a step of the execution of work item m fails in this step
SyncStepFails(m) ==
    \/ m.store \in StoreIds /\ has_access_token(store) /\ sync_store_data(m, FALSE)
    \/ sync.pc = "fetch" /\ sync.msg = m /\ \E failAt \in Pages : sync_fetch(failAt)
    \/ sync.pc = "process" /\ sync.msg = m /\ sync_process({}, TRUE)

\* C28: an execution of the sync for a store with a token ends with
\* sync_status success or failed: success, with last_sync_at the time of
\* the end, only after the session, every page and every product went
\* through; failed, with last_sync_at as before and the work item sent
\* again (while retries are left), when one of those steps failed
C28_EndsSuccessOrFailed ==
    [][/\ SyncExecutionEnds => store'.sync_status \in {"success", "failed"}
       /\ (SyncExecutionEnds /\ store'.sync_status = "success") =>
              /\ sync.pc = "process" /\ sync.idx > Len(RemoteCatalog)
              /\ store'.last_sync_at = now
       /\ sync_finish => SyncExecutionEnds /\ store'.sync_status = "success"
       /\ \A m \in SyncMessages :
             SyncStepFails(m) =>
                 /\ SyncExecutionEnds
                 /\ store'.sync_status = "failed"
                 /\ store'.last_sync_at = store.last_sync_at
                 /\ m.retries < max_retries =>
                        BagIn([store |-> m.store, retries |-> m.retries + 1,
                               countdown |-> default_retry_delay], syncq')]_vars

C28_Witness ==
    /\ last = Ended("sync_store_data", "success")
    /\ store.sync_status = "success"
    /\ store.last_sync_at = now
    /\ now > 0
    /\ executions.started = 3

(* ---------------- a product whose processing raises ---------------------- *)
\* C29: when the upsert of one product or of one of its variants raises, the
\* execution goes on with the remaining products of the fetched batch
C29_ProductFailureDoesNotAbort ==
    [][(sync.pc = "process" /\ sync.idx < Len(RemoteCatalog) /\ sync_process({}, TRUE)) =>
          /\ sync'.pc = "process"
          /\ sync'.idx = sync.idx + 1]_vars

(* ---------------- local rows the remote catalog no longer has ------------ *)
\* the local tables after earlier syncs of a catalog that has changed since:
\* product 3 and variant 13 of product 1 are no longer in the remote catalog
StaleCatalog ==
    [products  |-> {[shopify_id |-> 3, data |-> "old", last_synced |-> 0, updated_at |-> 0],
                    [shopify_id |-> 1, data |-> "a0", last_synced |-> 0, updated_at |-> 0]},
     variants  |-> {[product |-> 3, shopify_id |-> 31, inventory_item_id |-> 131, updated_at |-> 0],
                    [product |-> 1, shopify_id |-> 13, inventory_item_id |-> 113, updated_at |-> 0],
                    [product |-> 1, shopify_id |-> 11, inventory_item_id |-> 111, updated_at |-> 0]},
     locations |-> {[shopify_id |-> 1], [shopify_id |-> 9]},
     levels    |-> {[variant |-> 31, location |-> 9, available |-> 4, last_synced |-> 0],
                    [variant |-> 13, location |-> 1, available |-> 5, last_synced |-> 0],
                    [variant |-> 11, location |-> 1, available |-> 7, last_synced |-> 0]}]

StaleSyncInit ==
    /\ store = [NewStore EXCEPT !.sync_status = "success", !.last_sync_at = 0]
    /\ catalog = StaleCatalog
    /\ syncq = EmptyBag
    /\ sync = NoSync
    /\ session = FALSE
    /\ executions = [triggers |-> 0, started |-> 0]

InitStale == RuleInit /\ StaleSyncInit /\ FnInit

SpecSyncStale == InitStale /\ [][NextSync]_vars

\* the keys of the remote catalog
RemoteProductIds == {pd.id : pd \in Range(RemoteCatalog)}
RemoteVariantKeys == UNION {{<<pd.id, vd.id>> : vd \in Range(pd.variants)} : pd \in Range(RemoteCatalog)}

\* C30: no step of the sync deletes a Product, ProductVariant or
\* InventoryLevel row, and a product or variant that the remote catalog does
\* not have keeps every field but updated_at; the levels of such a variant
\* stay as they are
C30_NothingDeleted ==
    [][/\ \A r \in catalog.products :
            \E n \in catalog'.products :
                /\ n.shopify_id = r.shopify_id
                /\ r.shopify_id \notin RemoteProductIds => [n EXCEPT !.updated_at = r.updated_at] = r
       /\ \A r \in catalog.variants :
            \E n \in catalog'.variants :
                /\ n.product = r.product /\ n.shopify_id = r.shopify_id
                /\ <<r.product, r.shopify_id>> \notin RemoteVariantKeys =>
                       [n EXCEPT !.updated_at = r.updated_at] = r
       /\ \A r \in catalog.levels :
            \E n \in catalog'.levels :
                /\ n.variant = r.variant /\ n.location = r.location
                /\ r.variant \notin {k[2] : k \in RemoteVariantKeys} => n = r
       /\ Cardinality(catalog'.products) >= Cardinality(catalog.products)
       /\ Cardinality(catalog'.variants) >= Cardinality(catalog.variants)
       /\ Cardinality(catalog'.levels) >= Cardinality(catalog.levels)]_vars

C30_Witness ==
    /\ last = Ended("sync_store_data", "success")
    /\ now > 0
    /\ [shopify_id |-> 3, data |-> "old", last_synced |-> 0, updated_at |-> now] \in catalog.products
    /\ [product |-> 1, shopify_id |-> 13, inventory_item_id |-> 113, updated_at |-> now] \in catalog.variants
    /\ [variant |-> 13, location |-> 1, available |-> 5, last_synced |-> 0] \in catalog.levels
    /\ \E r \in catalog.products : r.shopify_id = 2

(* ---------------- scheduling times --------------------------------------- *)
\* C31: a call of schedule leaves a pending RuleApplication of the pair whose
\* scheduled_for is now + rule.delay and enqueues apply only for a rule
\* without delay; and no RuleApplication goes from pending to applied at a
\* time before its scheduled_for, whatever enqueued the apply
C31_ScheduledForRespected ==
    [][/\ \A rp \in Pairs :
             ScheduleEnds(rp[1], rp[2]) =>
                 /\ \E a \in PendingFor(rp[1], rp[2])' :
                       apps'[a].scheduled_for = now + rules[rp[1]].delay_minutes
                 /\ queue' # queue => rules[rp[1]].delay_minutes = 0
       /\ \A a \in AppIds :
             apps[a].status = "pending" /\ apps'[a].status = "applied" =>
                 apps'[a].scheduled_for # NoTime /\ apps'[a].scheduled_for <= now]_vars

(* ---------------- the poller as safety net ------------------------------ *)
\* timezone.now() has no upper end.  Once the clock of the model stands at
\* MaxTime, a further unit of time is told by moving every stored time one
\* unit towards the past instead: the tasks only compare stored times with
\* now and add durations to now, and a time that is not after now stays so.
Earlier(t) == IF t = NoTime THEN NoTime ELSE IF t > 0 THEN t - 1 ELSE 0

EarlierApp(row) ==
    [row EXCEPT !.triggered_at = Earlier(@), !.scheduled_for = Earlier(@),
                !.applied_at = Earlier(@), !.restore_scheduled_for = Earlier(@)]

EarlierProduct(row) ==
    [row EXCEPT !.hidden_at = Earlier(@), !.scheduled_return = Earlier(@)]

Elapse ==
    /\ now = MaxTime
    /\ apps' = [a \in AppIds |-> EarlierApp(apps[a])]
    /\ product' = [p \in Products |-> EarlierProduct(product[p])]
    /\ local' = [w \in Workers |->
                    IF local[w] = NoLocal THEN NoLocal
                    ELSE [local[w] EXCEPT !.app = EarlierApp(@), !.prod = EarlierProduct(@)]]
    /\ last' = NoResult
    /\ UNCHANGED <<rules, logs, queue, notifs, now, pc, cpc, clocal, crashes, failed_runs>>
    /\ UNCHANGED <<syncVars, fnVars>>

\* tasks.py with one caller and one worker that may die inside a task, under
\* a clock that goes on
NextLive ==
    \/ Tick
    \/ Elapse
    \/ TasksPy(1, 1)
    \/ check_scheduled_rules
    \/ \E redeliver \in BOOLEAN : Crash(1, redeliver)

\* celery beat keeps running check_scheduled_rules, the worker takes every
\* work item that stays or keeps coming back in the queue and goes on with a
\* task it has begun; nothing is assumed about the callers of schedule
Fairness ==
    /\ WF_vars(Tick \/ Elapse)
    /\ SF_vars(check_scheduled_rules)
    /\ \A a \in RowIds : SF_vars(apply_rule(1, a)) /\ SF_vars(restore_product(1, a))
    /\ WF_vars(\E ok \in BOOLEAN : apply_rule_act(1, ok))
    /\ WF_vars(apply_rule_save(1))
    /\ WF_vars(\E ok \in BOOLEAN : restore_product_act(1, ok))
    /\ WF_vars(restore_product_save(1))

SpecLive == Init /\ [][NextLive]_vars /\ Fairness

\* C32: with the poller running and the worker executing every work item,
\* every RuleApplication that is pending eventually leaves pending, also when
\* the enqueued apply was lost and when schedule keeps being called for the
\* same rule and product
C32_PendingEventuallyLeaves ==
    \A a \in RowIds :
        (a \in AppIds /\ apps[a].status = "pending") ~> (a \in AppIds /\ apps[a].status # "pending")

(* ---------------- restore times ------------------------------------------ *)
\* an execution of restore for a writes the product back as visible in this step
Restores(a) ==
    \/ \E w \in Workers :
          /\ pc[w] = "act" /\ local[w].task = "restore" /\ local[w].id = a
          /\ restore_product_act(w, TRUE)
          /\ pc'[w] = "save"
    \/ /\ a \in AppIds
       /\ apps[a].status = "applied"
       /\ rule_tasks_restore_product(a)
       /\ last' = Ended("restore_product", "success")

\* if rule.auto_restore and rule.restore_after_days > 0
AutoRestores(r) == rules[r].auto_restore /\ rules[r].restore_after_days > 0

\* C33: the restore time of a RuleApplication is the time of its apply plus
\* the restore duration of its rule, and a product hidden by apply at time T
\* is not restored before T plus the restore duration
C33_RestoreAfterDuration ==
    [][\A a \in AppIds :
          /\ (apps[a].status = "pending" /\ apps'[a].status = "applied" /\ AutoRestores(apps[a].rule)) =>
                 apps'[a].restore_scheduled_for = now + rules[apps[a].rule].restore_after_days
          /\ Restores(a) =>
                 now >= product[apps[a].product].hidden_at + rules[apps[a].rule].restore_after_days]_vars

(* ---------------- inbound events: process_inventory_update -------------- *)
\* the Rule rows of store 1 and of another store, with the columns the
\* selection of process_out_of_stock_rules and the matcher read; the
\* product of the model has product_type 'Shoes' and no vendor
EventRuleTable ==
    << [action_type |-> "hide_product", delay_minutes |-> 0, auto_restore |-> TRUE,  restore_after_days |-> 1,
        store |-> 1, is_active |-> TRUE,  trigger_type |-> "out_of_stock", priority |-> 6,
        product_type_filter |-> None, vendor_filter |-> None],
       [action_type |-> "tag_product",  delay_minutes |-> 1, auto_restore |-> FALSE, restore_after_days |-> 0,
        store |-> 1, is_active |-> TRUE,  trigger_type |-> "out_of_stock", priority |-> 5,
        product_type_filter |-> <<"Shoes">>, vendor_filter |-> <<"">>],
       [action_type |-> "hide_product", delay_minutes |-> 0, auto_restore |-> FALSE, restore_after_days |-> 0,
        store |-> 1, is_active |-> FALSE, trigger_type |-> "out_of_stock", priority |-> 4,
        product_type_filter |-> None, vendor_filter |-> None],
       [action_type |-> "hide_product", delay_minutes |-> 0, auto_restore |-> FALSE, restore_after_days |-> 0,
        store |-> 2, is_active |-> TRUE,  trigger_type |-> "out_of_stock", priority |-> 3,
        product_type_filter |-> None, vendor_filter |-> None],
       [action_type |-> "hide_product", delay_minutes |-> 0, auto_restore |-> FALSE, restore_after_days |-> 0,
        store |-> 1, is_active |-> TRUE,  trigger_type |-> "low_stock",    priority |-> 2,
        product_type_filter |-> None, vendor_filter |-> None],
       [action_type |-> "hide_product", delay_minutes |-> 0, auto_restore |-> FALSE, restore_after_days |-> 0,
        store |-> 1, is_active |-> TRUE,  trigger_type |-> "out_of_stock", priority |-> 1,
        product_type_filter |-> <<"shoes">>, vendor_filter |-> None] >>

\* product_data of the remote product: what the matcher sees on the local row
ProductData(p) == [product_type |-> <<"Shoes">>, vendor |-> None]

\* Rule.objects.filter(store=store, is_active=True, trigger_type='out_of_stock')
OutOfStockRules(sid) ==
    {r \in DOMAIN rules : rules[r].store = sid /\ rules[r].is_active
                          /\ rules[r].trigger_type = "out_of_stock"}

\* for rule in rules: if rule_matches_product(rule, product)
MatchingRules(sid, p) ==
    {r \in OutOfStockRules(sid) : rule_matches_product(rules[r], ProductData(p))}

RECURSIVE ByPriority(_)
\* .order_by('-priority')
ByPriority(R) ==
    IF R = {} THEN <<>>
    ELSE LET r == CHOOSE x \in R : \A y \in R : rules[y].priority <= rules[x].priority
         IN <<r>> \o ByPriority(R \ {r})

\* the pending rows of (r, p) in a table
PendingIn(table, r, p) ==
    {a \in 1..Len(table) : table[a].rule = r /\ table[a].product = p /\ table[a].status = "pending"}

\* schedule_rule_application(rule, product) called inside sync_product: one
\* pending row is updated, none is inserted, several raise
\* MultipleObjectsReturned; then the dispatch for a rule without delay
ScheduleIn(st, r, p) ==
    LET found == PendingIn(st.apps, r, p) IN
    IF st.raised THEN st
    ELSE IF Cardinality(found) > 1 THEN [st EXCEPT !.raised = TRUE]
    ELSE IF Cardinality(found) = 1
    THEN LET a == CHOOSE x \in found : TRUE IN
         [st EXCEPT !.apps = [st.apps EXCEPT ![a].triggered_at = now,
                                             ![a].scheduled_for = ScheduledFor(r),
                                             ![a].restore_scheduled_for = RestoreScheduledFor(r)],
                    !.queue = IF rules[r].delay_minutes = 0 THEN @ \cup {Msg("apply", a)} ELSE @]
    ELSE [st EXCEPT !.apps = Append(st.apps, NewApplication(r, p, now, ScheduledFor(r), RestoreScheduledFor(r))),
                    !.queue = IF rules[r].delay_minutes = 0
                              THEN @ \cup {Msg("apply", Len(st.apps) + 1)} ELSE @]

RECURSIVE ScheduleAll(_, _, _)
\* the loop of process_out_of_stock_rules over the selected rules
ScheduleAll(rs, p, st) ==
    IF rs = <<>> THEN st ELSE ScheduleAll(Tail(rs), p, ScheduleIn(st, Head(rs), p))

\* Product.shopify_id of the local product: the remote product with one
\* variant and one inventory level
RemoteProduct(p) == RemoteCatalog[2]

\* the (variant, location) pairs the remote holds inventory levels for
LevelKeys(p) ==
    UNION {{<<vd.id, ld.location_id>> : ld \in Range(vd.levels)} : vd \in Range(RemoteProduct(p).variants)}

\* what client.get_inventory_levels may answer for the product
LevelAnswers(p) == [LevelKeys(p) -> Quantities]

\* ProductVariant.objects.update_or_create(product=, shopify_id=, defaults=...) for every variant
SyncProductVariants(rows, pd) ==
    {r \in rows : ~(r.product = pd.id /\ r.shopify_id \in {vd.id : vd \in Range(pd.variants)})}
        \cup {[product |-> pd.id, shopify_id |-> vd.id,
               inventory_item_id |-> vd.inventory_item_id, updated_at |-> now] : vd \in Range(pd.variants)}

\* store.inventory_locations.get_or_create(shopify_id=location_id)
SyncProductLocations(rows, avail) == rows \cup {[shopify_id |-> k[2]] : k \in DOMAIN avail}

\* InventoryLevel.objects.update_or_create(variant=, location=, defaults={available, last_synced})
SyncProductLevels(rows, avail) ==
    {r \in rows : <<r.variant, r.location>> \notin DOMAIN avail}
        \cup {[variant |-> k[1], location |-> k[2], available |-> avail[k], last_synced |-> now] :
                 k \in DOMAIN avail}

\* if not created: if inv_level.available != available: InventoryLog.objects.create(action='sync', ...)
\* inv_level is the row update_or_create returns, after the update
SyncProductLogs(rows, p, avail) ==
    LET updated == SyncProductLevels(rows, avail)
        inv_level(k) == CHOOSE r \in updated : r.variant = k[1] /\ r.location = k[2]
        created(k) == ~\E r \in rows : r.variant = k[1] /\ r.location = k[2]
    IN {[product |-> p, action |-> "sync", variant |-> k[1], location |-> k[2],
         previous_value |-> inv_level(k).available, new_value |-> avail[k]] :
            k \in {x \in DOMAIN avail : ~created(x) /\ inv_level(x).available # avail[x]}}

RECURSIVE SumAvailable(_)
\* sum(... .values_list('available', flat=True))
SumAvailable(rows) ==
    IF rows = {} THEN 0
    ELSE LET r == CHOOSE x \in rows : TRUE IN r.available + SumAvailable(rows \ {r})

\* InventoryLevel.objects.filter(variant__product=product)
LevelsOfProduct(c, pid) ==
    {l \in c.levels : \E v \in c.variants : v.product = pid /\ v.shopify_id = l.variant}

\* tasks.py process_inventory_update(shop_domain, product_id) with
\* sync_product and process_out_of_stock_rules: the store lookup, the fetch
\* of the product (found), and in one transaction the upsert of product,
\* variants and inventory levels (levelsOk: the lookup answers, with avail),
\* the total and, when it is <= 0, schedule for every selected rule that
\* matches.  An event goes on to insert rows only while the table holds
\* fewer than MaxApps rows.
process_inventory_update(shop, p, found, status, levelsOk, avail) ==
    /\ IF shop \notin StoreIds
       THEN /\ last' = Ended("process_inventory_update", "error: store not found")
            /\ UNCHANGED <<apps, queue, product, catalog, logs>>
       ELSE IF ~found
       THEN /\ last' = Ended("process_inventory_update", "error: could not fetch product")
            /\ UNCHANGED <<apps, queue, product, catalog, logs>>
       ELSE LET pd == RemoteProduct(p)
                answered == IF levelsOk THEN avail ELSE <<>>
                cat == [products  |-> UpsertProduct(catalog.products, pd),
                        variants  |-> SyncProductVariants(catalog.variants, pd),
                        locations |-> SyncProductLocations(catalog.locations, answered),
                        levels    |-> SyncProductLevels(catalog.levels, answered)]
                total == SumAvailable(LevelsOfProduct(cat, pd.id))
                st0 == [apps |-> apps, queue |-> queue, raised |-> FALSE]
                st == IF total <= 0
                      THEN ScheduleAll(ByPriority(MatchingRules(shop, p)), p, st0) ELSE st0
            IN /\ Len(st.apps) > Len(apps) => Len(apps) < MaxApps
               /\ queue' = st.queue
               /\ IF st.raised
                  THEN /\ last' = Ended("process_inventory_update", "error: MultipleObjectsReturned")
                       /\ UNCHANGED <<apps, product, catalog, logs>>
                  ELSE /\ apps' = st.apps
                       /\ product' = [product EXCEPT ![p].status = status]
                       /\ catalog' = cat
                       /\ logs' = logs (+) SetToBag(SyncProductLogs(catalog.levels, p, answered))
                       /\ last' = Ended("process_inventory_update",
                                        IF total <= 0 THEN "out_of_stock" ELSE "in_stock")
    /\ UNCHANGED <<rules, notifs, now, pc, local, cpc, clocal, crashes, failed_runs>>
    /\ UNCHANGED <<store, syncq, sync, session, executions, fnVars>>

\* tasks/inventory_tasks.py process_inventory_update, the copy the package
\* exports: ShopifyClient(store) lacks the access_token argument of
\* ShopifyClient.__init__(shop_url, access_token) and raises TypeError, which
\* the handler turns into {'error': ...}; sync_product of tasks/sync_tasks.py,
\* which would follow, returns 'not_implemented'.  The remote answers are
\* never asked for.
inventory_tasks_process_inventory_update(shop, p, found, status, levelsOk, avail) ==
    /\ last' = IF shop \notin StoreIds
               THEN Ended("process_inventory_update", "error: store not found")
               ELSE Ended("process_inventory_update", "error: TypeError")
    /\ UNCHANGED <<ruleVars, now, syncVars, fnVars>>

\* the remote product statuses
ProductStatuses == {"active", "draft"}

InitEvents ==
    /\ rules = EventRuleTable
    /\ apps = <<>>
    /\ product = [p \in Products |-> NewProduct]
    /\ logs = EmptyBag
    /\ queue = {}
    /\ notifs = EmptyBag
    /\ now = 0
    /\ pc = [w \in Workers |-> "idle"]
    /\ local = [w \in Workers |-> NoLocal]
    /\ cpc = [c \in Callers |-> "idle"]
    /\ clocal = [c \in Callers |-> NoCall]
    /\ last = NoResult
    /\ crashes = 0
    /\ failed_runs = {}
    /\ SyncInit
    /\ FnInit

\* webhooks for the one product arrive while the worker and the poller of
\* tasks.py run
NextEvents ==
    \/ Tick
    \/ \E shop \in SyncStoreIds, p \in Products, found \in BOOLEAN, status \in ProductStatuses,
          levelsOk \in BOOLEAN, avail \in LevelAnswers(1) :
            process_inventory_update(shop, p, found, status, levelsOk, avail)
    \/ \E shop \in SyncStoreIds, p \in Products, found \in BOOLEAN, status \in ProductStatuses,
          levelsOk \in BOOLEAN, avail \in LevelAnswers(1) :
            inventory_tasks_process_inventory_update(shop, p, found, status, levelsOk, avail)
    \/ \E a \in RowIds : apply_rule(1, a)
    \/ \E ok \in BOOLEAN : apply_rule_act(1, ok)
    \/ apply_rule_save(1)
    \/ check_scheduled_rules

SpecEvents == InitEvents /\ [][NextEvents]_vars

\* the rule is one the event of store sid for product p has to schedule
Eligible(r, sid, p) ==
    /\ rules[r].store = sid
    /\ rules[r].is_active
    /\ rules[r].trigger_type = "out_of_stock"
    /\ FilterAdmits(rules[r].product_type_filter, ProductData(p).product_type)
    /\ FilterAdmits(rules[r].vendor_filter, ProductData(p).vendor)

\* the quantities of an answer add up to zero or less
AnswersOutOfStock(avail) ==
    SumAvailable({[key |-> k, available |-> avail[k]] : k \in DOMAIN avail}) <= 0

\* an inbound event of store 1 for product p is processed in this step, by
\* either copy, while the remote holds the product with no stock
EventOutOfStock(p) ==
    \E status \in ProductStatuses, avail \in LevelAnswers(p) :
        /\ AnswersOutOfStock(avail)
        /\ \/ process_inventory_update(1, p, TRUE, status, TRUE, avail)
           \/ inventory_tasks_process_inventory_update(1, p, TRUE, status, TRUE, avail)

\* C34: when the processing of an inbound event of an active store finds the
\* product out of stock, then at its end a RuleApplication exists for every
\* rule of the store that is active, has trigger out_of_stock and matches
\* the product, and no RuleApplication was created or rescheduled for any
\* other rule
C34_EventSchedulesMatchingRules ==
    [][\A p \in Products :
          EventOutOfStock(p) =>
              /\ \A r \in DOMAIN rules :
                    Eligible(r, 1, p) =>
                        \E a \in 1..Len(apps') : apps'[a].rule = r /\ apps'[a].product = p
              /\ \A a \in 1..Len(apps') :
                    (a > Len(apps) \/ apps'[a] # apps[a]) => Eligible(apps'[a].rule, 1, p)]_vars

(* ---------------- the InventoryLog row of apply -------------------------- *)
\* an execution of apply for a writes the product as hidden, and the
\* InventoryLog row with it, in this step
Hides(a) ==
    \/ \E w \in Workers :
          /\ pc[w] = "act" /\ local[w].task = "apply" /\ local[w].id = a
          /\ apply_rule_act(w, TRUE)
          /\ pc'[w] = "save"
    \/ /\ a \in AppIds
       /\ apps[a].status = "pending"
       /\ rule_tasks_apply_rule(a)
       /\ last' = Ended("apply_rule", "success")

\* the InventoryLog rows created in this step
NewLogs == {row \in DOMAIN logs' : CopiesIn(row, logs') > CopiesIn(row, logs)}

\* the words an InventoryLog row has for the state of a product row: the
\* status column (tasks.py) or visible / hidden (rule_tasks.py)
StatusWords(row) == {row.status, IF row.is_visible THEN "visible" ELSE "hidden"}

\* C35: the InventoryLog row a successful apply writes has as previous status
\* the state of the product before the transition and as new status its
\* state after it
C35_LogRecordsTransition ==
    [][\A a \in AppIds :
          Hides(a) =>
              /\ Cardinality(NewLogs) = 1
              /\ \A row \in NewLogs :
                    /\ row.app = a
                    /\ row.previous_status \in StatusWords(product[apps[a].product])
                    /\ row.new_status \in StatusWords(product'[apps[a].product])]_vars

(* ---------------- the InventoryLog rows of the synchronisation ----------- *)
\* the InventoryLog rows with action 'sync' created in this step for a level
NewSyncLogs(variant, location) ==
    {row \in NewLogs : row.action = "sync" /\ row.variant = variant /\ row.location = location}

\* C36: every change the synchronisation makes to the available quantity of
\* an existing InventoryLevel comes with one InventoryLog row of action sync
\* whose previous value is the quantity before and whose new value is the
\* quantity after; an update that leaves the quantity writes no row
C36_LevelChangeLogged ==
    [][\A old \in catalog.levels, new \in catalog'.levels :
          (old.variant = new.variant /\ old.location = new.location) =>
              IF old.available # new.available
              THEN /\ Cardinality(NewSyncLogs(old.variant, old.location)) = 1
                   /\ \A row \in NewSyncLogs(old.variant, old.location) :
                         /\ CopiesIn(row, logs') = CopiesIn(row, logs) + 1
                         /\ row.previous_value = old.available
                         /\ row.new_value = new.available
              ELSE NewSyncLogs(old.variant, old.location) = {}]_vars

(* ---------------- retries of the sync ------------------------------------ *)
\* the work items waiting when the execution of m took m from the queue
WithoutTaken(m) == IF sync.pc = "idle" THEN syncq (-) SetToBag({m}) ELSE syncq

\* C37: an execution of the sync that fails sends the work item again
\* exactly once while retries are left and not at all afterwards, so the
\* executions begun and the work items waiting never exceed 1 + max_retries
\* for each trigger
C37_OneRetryPerFailure ==
    [][/\ \A m \in SyncMessages :
             SyncStepFails(m) =>
                 syncq' = IF m.retries < max_retries
                          THEN WithoutTaken(m) (+) SetToBag({[store |-> m.store, retries |-> m.retries + 1,
                                                              countdown |-> default_retry_delay]})
                          ELSE WithoutTaken(m)
       /\ executions'.started + BagCardinality(syncq') <= (1 + max_retries) * executions'.triggers]_vars

(* ---------------- run_sync.py: the manual synchronisation ---------------- *)
\* the local products whose remote product is pd
LocalProducts(pd) == {p \in Products : RemoteProduct(p).id = pd.id}

\* sync_store(store) starts: sync_status = 'in_progress' is saved and the
\* products are fetched; fetch_products returns [] when the request fails
run_sync_sync_store(fetched) ==
    /\ sync.pc = "idle"
    /\ executions.started < MaxExecutions
    /\ executions' = [executions EXCEPT !.started = @ + 1]
    /\ store' = [store EXCEPT !.sync_status = "in_progress"]
    /\ sync' = [pc |-> "manual", idx |-> IF fetched THEN 1 ELSE Len(RemoteCatalog) + 1]
    /\ last' = NoResult
    /\ UNCHANGED <<catalog, syncq, session>>
    /\ UNCHANGED <<ruleVars, now, fnVars>>

\* one product of products_data: Product.objects.update_or_create with
\* defaults that include the remote status and 'is_visible': True, then the
\* upsert of its variants; raises: a statement raises, the handler saves
\* sync_status = 'failed' and the run ends
run_sync_sync_store_product(status, raises) ==
    /\ sync.pc = "manual"
    /\ sync.idx <= Len(RemoteCatalog)
    /\ LET pd == RemoteCatalog[sync.idx] IN
       IF raises
       THEN /\ store' = [store EXCEPT !.sync_status = "failed"]
            /\ sync' = NoSync
            /\ last' = Ended("sync_store", "failed")
            /\ UNCHANGED <<catalog, product>>
       ELSE /\ catalog' = [catalog EXCEPT !.products = UpsertProduct(@, pd),
                                          !.variants = SyncProductVariants(@, pd)]
            /\ product' = [p \in Products |->
                              IF p \in LocalProducts(pd)
                              THEN [product[p] EXCEPT !.status = status, !.is_visible = TRUE]
                              ELSE product[p]]
            /\ sync' = [sync EXCEPT !.idx = @ + 1]
            /\ last' = NoResult
            /\ UNCHANGED store
    /\ UNCHANGED <<syncq, session, executions>>
    /\ UNCHANGED <<rules, apps, logs, queue, notifs, now, pc, local, cpc, clocal, crashes, failed_runs>>
    /\ UNCHANGED fnVars

\* the loop is through: sync_status = 'success' and last_sync_at are saved
run_sync_sync_store_end ==
    /\ sync.pc = "manual"
    /\ sync.idx > Len(RemoteCatalog)
    /\ store' = [store EXCEPT !.sync_status = "success", !.last_sync_at = now]
    /\ sync' = NoSync
    /\ last' = Ended("sync_store", "success")
    /\ UNCHANGED <<catalog, syncq, session, executions>>
    /\ UNCHANGED <<ruleVars, now, fnVars>>

\* the manual synchronisation runs beside the caller, the worker and the
\* poller of tasks.py
NextVisible ==
    \/ Tick
    \/ TasksPy(1, 1)
    \/ check_scheduled_rules
    \/ \E fetched \in BOOLEAN : run_sync_sync_store(fetched)
    \/ \E status \in ProductStatuses, raises \in BOOLEAN : run_sync_sync_store_product(status, raises)
    \/ run_sync_sync_store_end

SpecVisible == Init /\ [][NextVisible]_vars

\* a step of a synchronisation: it changes the store row, the mirrored
\* catalog or the position of the run
ReconciliationStep == syncVars' # syncVars

\* the columns of a product the rule state machine owns
Visibility(row) == <<row.is_visible, row.hidden_at, row.scheduled_return>>

\* C38: no step of a synchronisation changes is_visible, hidden_at or
\* scheduled_return of a product, and a product hidden by an applied
\* RuleApplication is not visible again before the restore of that
\* RuleApplication writes it
C38_ReconciliationKeepsVisibility ==
    [][\A p \in Products :
          /\ ReconciliationStep => Visibility(product'[p]) = Visibility(product[p])
          /\ \A a \in AppIds :
                (apps[a].product = p /\ apps[a].status = "applied"
                    /\ ~product[p].is_visible /\ product'[p].is_visible) => Restores(a)]_vars

(* ---------------- deactivating a rule ------------------------------------ *)
\* two active rules of store 1, with the is_active column
ActiveRuleTable == SubSeq(EventRuleTable, 1, 2)

InitActive ==
    /\ rules = ActiveRuleTable
    /\ apps = <<>>
    /\ product = [p \in Products |-> NewProduct]
    /\ logs = EmptyBag
    /\ queue = {}
    /\ notifs = EmptyBag
    /\ now = 0
    /\ pc = [w \in Workers |-> "idle"]
    /\ local = [w \in Workers |-> NoLocal]
    /\ cpc = [c \in Callers |-> "idle"]
    /\ clocal = [c \in Callers |-> NoCall]
    /\ last = NoResult
    /\ crashes = 0
    /\ failed_runs = {}
    /\ SyncInit
    /\ FnInit

\* Rule.is_active of rule r is set to False; no task writes the column
deactivate(r) ==
    /\ rules[r].is_active
    /\ rules' = [rules EXCEPT ![r].is_active = FALSE]
    /\ last' = NoResult
    /\ UNCHANGED <<apps, product, logs, queue, notifs, now, pc, local, cpc, clocal, crashes, failed_runs>>
    /\ UNCHANGED <<syncVars, fnVars>>

\* rules are deactivated while both copies of the tasks run
NextActive ==
    \/ Tick
    \/ TasksPy(1, 1)
    \/ check_scheduled_rules
    \/ RuleTasksPy
    \/ \E r \in RuleIds : deactivate(r)

SpecActive == InitActive /\ [][NextActive]_vars

\* the pending RuleApplications whose rule is not active
PendingOfInactive ==
    {a \in AppIds : apps[a].status = "pending" /\ ~rules[apps[a].rule].is_active}

\* C39: a pending RuleApplication whose rule has been deactivated is
\* dispatched by a run of the poller once it is due and is taken through the
\* transition by an execution of apply, as if the rule were active; and no
\* step removes a pending RuleApplication or gives it a status other than
\* applied or failed
C39_DeactivatedRuleStillApplied ==
    [][\A a \in PendingOfInactive :
          /\ (PollerRuns /\ a \in DueToApply) => Msg("apply", a) \in queue'
          /\ (a \in DueToApply /\ \E w \in Workers : apply_rule(w, a)) =>
                 \E w \in Workers : pc'[w] = "act" /\ local'[w].id = a
          /\ rule_tasks_apply_rule(a) => apps'[a].status \in {"applied", "failed"}
          /\ a \in DOMAIN apps'
          /\ apps'[a].status \in {"pending", "applied", "failed"}]_vars

====
